---------------------------- MODULE Spec2Model ----------------------------
(***************************************************************************)
(* Model of the Visonic B0 protocol decoder (visonic_decoder).             *)
(*                                                                         *)
(* Bytes are integers 0..255, a bytes/bytearray value is a sequence of     *)
(* them (TLA+ indexes from 1, Python from 0: PySlice does the shift).      *)
(* Hex renderings are TLA+ strings.  A Python value whose type the code    *)
(* tests or depends on (list / bytearray / str) carries a tag t.           *)
(* A raised Python exception is a record [exc |-> name, at |-> function].  *)
(***************************************************************************)
EXTENDS Integers, Sequences, FiniteSets, TLC

VARIABLES pages, page_client, last, calls

vars == <<pages, page_client, last, calls>>

(***************************************************************************)
(* Bounds of the model                                                     *)
(***************************************************************************)
MaxCalls == 4

(***************************************************************************)
(* Python built-ins the decoder relies on                                  *)
(***************************************************************************)
Min(a, b) == IF a < b THEN a ELSE b

Max(a, b) == IF a > b THEN a ELSE b

\* s[a:b] for a bytes value s: negative bounds count from the end, both
\* bounds are clamped to the value's length, an empty range gives b"".
PySlice(s, a, b) ==
    LET n  == Len(s)
        lo == IF a < 0 THEN Max(n + a, 0) ELSE Min(a, n)
        hi == IF b < 0 THEN Max(n + b, 0) ELSE Min(b, n)
    IN  IF hi <= lo THEN <<>> ELSE SubSeq(s, lo + 1, hi)

\* s[a:]
PyFrom(s, a) == PySlice(s, a, Len(s))

HexDigits == <<"0", "1", "2", "3", "4", "5", "6", "7",
               "8", "9", "a", "b", "c", "d", "e", "f">>

HexByte(b) == HexDigits[(b \div 16) + 1] \o HexDigits[(b % 16) + 1]

\* bytes.hex()
RECURSIVE Hex(_)
Hex(bs) == IF bs = <<>> THEN "" ELSE HexByte(Head(bs)) \o Hex(Tail(bs))

\* bytes.hex(" ")
RECURSIVE HexSp(_)
HexSp(bs) ==
    IF bs = <<>> THEN ""
    ELSE IF Len(bs) = 1 THEN HexByte(bs[1])
    ELSE HexByte(Head(bs)) \o " " \o HexSp(Tail(bs))

\* list(s) for a str s: its characters
Chars(s) == [i \in 1..Len(s) |-> SubSeq(s, i, i)]

RECURSIVE FromBytesBig(_)
FromBytesBig(bs) ==
    IF bs = <<>> THEN 0
    ELSE FromBytesBig(SubSeq(bs, 1, Len(bs) - 1)) * 256 + bs[Len(bs)]

RECURSIVE FromBytesLittle(_)
FromBytesLittle(bs) ==
    IF bs = <<>> THEN 0 ELSE Head(bs) + 256 * FromBytesLittle(Tail(bs))

RECURSIVE SumBytes(_)
SumBytes(bs) == IF bs = <<>> THEN 0 ELSE Head(bs) + SumBytes(Tail(bs))

RECURSIVE Flatten(_)
Flatten(ss) == IF ss = <<>> THEN <<>> ELSE Head(ss) \o Flatten(Tail(ss))

(***************************************************************************)
(* helpers.py                                                              *)
(***************************************************************************)
b2i(byte, big_endian) ==
    IF big_endian THEN FromBytesBig(byte) ELSE FromBytesLittle(byte)

\* [data[i : i + size] for i in range(0, len(data), size)], size > 0;
\* range() raises ValueError for size = 0 (chunk_bytearray_raises).
RECURSIVE chunk_bytearray(_, _)
\* chunk_bytearray keeping only the slices of exactly size bytes
chunk_bytearray_whole(data, size) ==
    [i \in 1..(Len(data) \div Max(1, size)) |->
        SubSeq(data, (i - 1) * size + 1, i * size)]

chunk_bytearray(data, size) ==
    IF data = <<>> THEN <<>>
    ELSE <<PySlice(data, 0, size)>> \o chunk_bytearray(PyFrom(data, size), size)

chunk_bytearray_raises(size) == size = 0

\* calculate_message_checksum with the sum reduced mod 256 first
calculate_message_checksum_mod256(msg) ==
    LET checksum == 255 - ((SumBytes(msg) % 256) % 255)
    IN  <<IF checksum = 255 THEN 0 ELSE checksum>>

calculate_message_checksum(msg) ==
    LET checksum == 255 - (SumBytes(msg) % 255)
    IN  <<IF checksum = 255 THEN 0 ELSE checksum>>

\* decode_hex_timestamp: the reversed bytes read big-endian, i.e. the value
\* little-endian, as seconds since the epoch (the datetime is kept as that
\* number of seconds).
decode_hex_timestamp(data) == FromBytesLittle(data)

(***************************************************************************)
(* const.py                                                                *)
(***************************************************************************)
MessageType_ADD == 0

MessageType_REQUEST == 1

MessageType_PAGED_RESPONSE == 2

MessageType_RESPONSE == 3

MessageType_REMOVE == 4

MessageType_UNKNOWN == 5

\* MessageType: <<value, name>> of every member
MessageType ==
    {<<0, "ADD">>, <<1, "REQUEST">>, <<2, "PAGED_RESPONSE">>,
     <<3, "RESPONSE">>, <<4, "REMOVE">>, <<5, "UNKNOWN">>}

\* TEXT_UNKNOWN
TEXT_UNKNOWN == "UNKNOWN"

(***************************************************************************)
(* Lookup tables: B0Command, IndexName, DataTypes, EVENTS                  *)
(***************************************************************************)
\* B0Command: <<value, name>> of every member
B0Command ==
    {
      <<"01", "ZONE01">>, <<"02", "ZONE02">>, <<"04", "ZONE04">>,
      <<"05", "ZONE05">>, <<"06", "INVALID_COMMAND">>, <<"07", "ZONE07">>,
      <<"0f", "UNKNOWN0F">>, <<"11", "ZONES11">>, <<"12", "ZONES12">>,
      <<"13", "ZONES13">>, <<"14", "ZONES14">>, <<"15", "ZONES15">>,
      <<"16", "ZONES16">>, <<"17", "REQUEST_LIST">>,
      <<"18", "SENSOR_DETECTION">>, <<"19", "BYPASSES">>,
      <<"1d", "ENROLLED">>, <<"1f", "DEVICE_TYPES">>,
      <<"21", "ASSIGNED_NAMES">>, <<"22", "SYSTEM_CAPABILITIES">>,
      <<"24", "PANEL_STATUS">>, <<"27", "CAMERA_SOMETING">>,
      <<"2a", "STANDARD_EVENT_LOG">>, <<"2b", "UNKNOWN2B">>,
      <<"2d", "ASSIGNED_ZONE_TYPES">>, <<"35", "SETTINGS">>,
      <<"36", "LEGACY_EVENT_LOG">>, <<"37", "SOME_EVENT37">>,
      <<"3a", "ZONE3A">>, <<"3d", "ZONE_TEMPS">>, <<"40", "ZONE40">>,
      <<"42", "SETTINGS2">>, <<"43", "ZONE43">>, <<"49", "ZONE49">>,
      <<"4b", "ZONE_LAST_EVENT">>, <<"4e", "ZONE4E">>, <<"4f", "ZONE4F">>,
      <<"50", "ZONE50">>, <<"51", "ASK_ME">>, <<"52", "DEVICE_COUNTS">>,
      <<"53", "CAMERA_SOMETHING">>, <<"59", "GSM_STATUS">>,
      <<"64", "PANEL_SOFTWARE_VERSION">>,
      <<"69", "PANEL_EPROM_AND_SW_VERSION">>, <<"6a", "KEEP_ALIVE">>,
      <<"75", "SOME_LOG">>, <<"77", "ZONE_BRIGHTNESS">>
    }

\* IndexName: <<value, name>> of every member
IndexNames ==
    {
      <<0, "REPEATERS">>, <<1, "X10">>, <<2, "SIRENS">>, <<3, "ZONES">>,
      <<4, "KEYPADS">>, <<5, "KEYFOBS">>, <<6, "USERCODES">>,
      <<7, "CAMERASA">>, <<8, "UNK8">>, <<9, "POWERLINK">>, <<10, "TAGS">>,
      <<11, "CAMERASB">>, <<12, "PANEL">>, <<13, "UNK13">>,
      <<14, "PARTITIONS">>, <<15, "UNK15">>, <<16, "UNK16">>,
      <<17, "EVENTS">>, <<18, "UKN18">>, <<19, "UNK19">>, <<20, "UNK20">>,
      <<255, "NA">>
    }

\* DataTypes: <<value, name>> of every member
DataTypesNames ==
    {
      <<0, "UNKNOWN">>, <<1, "BITS">>, <<4, "NIBBLE">>, <<8, "BYTES">>,
      <<16, "WORD16">>, <<24, "WORD24">>, <<32, "WORD32">>,
      <<40, "WORD40">>, <<48, "WORD48">>, <<56, "WORD56">>,
      <<64, "WORD64">>, <<72, "WORD72">>, <<80, "WORD80">>,
      <<88, "WORD88">>, <<96, "WORD96">>, <<104, "WORD104">>,
      <<112, "WORD112">>
    }

\* the EVENTS list
EVENTS ==
    <<
      "None", "Interior Alarm", "Perimeter Alarm", "Delay Alarm",
      "24h Silent Alarm", "24h Audible Alarm", "Tamper",
      "Control Panel Tamper", "Tamper Alarm", "Tamper Alarm",
      "Communication Loss", "Panic From Keyfob",
      "Panic From Control Panel", "Duress", "Confirm Alarm",
      "General Trouble", "General Trouble Restore", "Interior Restore",
      "Perimeter Restore", "Delay Restore", "24h Silent Restore",
      "24h Audible Restore", "Tamper Restore",
      "Control Panel Tamper Restore", "Tamper Restore", "Tamper Restore",
      "Communication Restore", "Cancel Alarm", "General Restore",
      "Trouble Restore", "Not used", "Recent Close", "Fire",
      "Fire Restore", "Not Active", "Emergency", "Remove User",
      "Disarm Latchkey", "Confirm Alarm Emergency",
      "Supervision (Inactive)", "Supervision Restore (Active)",
      "Low Battery", "Low Battery Restore", "AC Fail", "AC Restore",
      "Control Panel Low Battery", "Control Panel Low Battery Restore",
      "RF Jamming", "RF Jamming Restore", "Communications Failure",
      "Communications Restore", "Telephone Line Failure",
      "Telephone Line Restore", "Auto Test", "Fuse Failure",
      "Fuse Restore", "Keyfob Low Battery", "Keyfob Low Battery Restore",
      "Engineer Reset", "Battery Disconnect", "1-Way Keypad Low Battery",
      "1-Way Keypad Low Battery Restore", "1-Way Keypad Inactive",
      "1-Way Keypad Restore Active", "Low Battery Ack", "Clean Me",
      "Fire Trouble", "Low Battery", "Battery Restore", "AC Fail",
      "AC Restore", "Supervision (Inactive)",
      "Supervision Restore (Active)", "Gas Alert", "Gas Alert Restore",
      "Gas Trouble", "Gas Trouble Restore", "Flood Alert",
      "Flood Alert Restore", "X-10 Trouble", "X-10 Trouble Restore",
      "Arm Home", "Arm Away", "Quick Arm Home", "Quick Arm Away", "Disarm",
      "Fail To Auto-Arm", "Enter To Test Mode", "Exit From Test Mode",
      "Force Arm", "Auto Arm", "Instant Arm", "Bypass", "Fail To Arm",
      "Door Open", "Communication Established By Control Panel",
      "System Reset", "Installer Programming", "Wrong Password",
      "Not Sys Event", "Not Sys Event", "Extreme Hot Alert",
      "Extreme Hot Alert Restore", "Freeze Alert", "Freeze Alert Restore",
      "Human Cold Alert", "Human Cold Alert Restore", "Human Hot Alert",
      "Human Hot Alert Restore", "Temperature Sensor Trouble",
      "Temperature Sensor Trouble Restore", "PIR Mask", "PIR Mask Restore",
      "Repeater low battery", "Repeater low battery restore",
      "Repeater inactive", "Repeater inactive restore", "Repeater tamper",
      "Repeater tamper restore", "Siren test end", "Devices test end",
      "One way comm. trouble", "One way comm. trouble restore",
      "Sensor outdoor alarm", "Sensor outdoor restore",
      "Guard sensor alarmed", "Guard sensor alarmed restore",
      "Date time change", "System shutdown", "System power up",
      "Missed Reminder", "Pendant test fail", "Basic KP inactive",
      "Basic KP inactive restore", "Basic KP tamper",
      "Basic KP tamper Restore", "Heat", "Heat restore", "LE Heat Trouble",
      "CO alarm", "CO alarm restore", "CO trouble", "CO trouble restore",
      "Exit Installer", "Enter Installer", "Self test trouble",
      "Self test restore", "Confirm panic event", "n/a", "Soak test fail",
      "Fire Soak test fail", "Gas Soak test fail", "n/a", "n/a", "n/a",
      "n/a", "n/a", "n/a", "n/a", "n/a", "n/a", "n/a", "n/a", "n/a", "n/a",
      "n/a", "n/a", "n/a", "n/a", "n/a", "n/a", "n/a", "n/a", "n/a", "n/a",
      "n/a", "n/a"
    >>

\* enum(value).name, for a value the enum has
NameIn(enum, value) == (CHOOSE e \in enum : e[1] = value)[2]

HasValue(enum, value) == \E e \in enum : e[1] = value

\* get_lookup_value: the member's name; the enum argument is a class, not an
\* Enum instance, so an unknown value gives TEXT_UNKNOWN
get_lookup_value(lookup_enum, value) ==
    IF HasValue(lookup_enum, value) THEN NameIn(lookup_enum, value)
    ELSE TEXT_UNKNOWN

(***************************************************************************)
(* Tagged Python values                                                    *)
(***************************************************************************)
PyList(v) == [t |-> "list", v |-> v]

PyByteArray(v) == [t |-> "bytearray", v |-> v]

PyStr(v) == [t |-> "str", v |-> v]

PyNone == [t |-> "None"]

\* an int that ended up as an element of a list of bytes values: a bytes
\* value holds 0..255 only, the int n is kept as <<n - 256>>
PyInt(n) == <<n - 256>>

IsPyInt(e) == Len(e) = 1 /\ e[1] < 0

\* a call either returns a value or raises
Return(v) == [ret |-> v]

Raise(exc, at) == [exc |-> exc, at |-> at]

IsRaise(r) == "exc" \in DOMAIN r

(***************************************************************************)
(* decoders/b0_message.py: data classes                                    *)
(***************************************************************************)
FINAL_PAGE == 255

B0DataChunk(data_type, index, length, data, hex) ==
    [cls |-> "B0DataChunk", data_type |-> data_type, index |-> index,
     length |-> length, data |-> data, hex |-> hex]

B042DataChunk(data_type, index, length, data, hex, max_entries, entries, start_entry, chunk_size) ==
    [cls |-> "B042DataChunk", data_type |-> data_type, index |-> index,
     length |-> length, data |-> data, hex |-> hex,
     max_entries |-> max_entries, entries |-> entries,
     start_entry |-> start_entry, chunk_size |-> chunk_size]

(***************************************************************************)
(* B0MessageDecoder.decode_b0_message_structure                            *)
(***************************************************************************)
\* the ADD / REMOVE layout
StructureAddRemove(msg, hdr) ==
    LET data_type == b2i(PySlice(msg, 9, 10), TRUE)
        flat == PySlice(msg, 10, 11) = <<255>>
        data_length == IF flat THEN b2i(PySlice(msg, 11, 12), TRUE)
                       ELSE hdr.length_all_data - 4
        start_of_data == 12
        chunk_length == b2i(PySlice(msg, 11, 12), TRUE)
        data ==
            IF flat
            THEN PyByteArray(PySlice(msg, start_of_data,
                                     start_of_data + data_length))
            ELSE [t |-> "B0DataChunk",
                  v |-> B0DataChunk(
                          b2i(PySlice(msg, 9, 10), TRUE),
                          b2i(PySlice(msg, 10, 11), TRUE),
                          chunk_length,
                          PyByteArray(PySlice(msg, start_of_data,
                                              start_of_data + chunk_length)),
                          PyStr(HexSp(PySlice(msg, start_of_data,
                                              start_of_data + chunk_length))))]
    IN  [shape |-> "request",
         message_start_marker |-> hdr.message_start_marker,
         b0_message |-> hdr.b0_message,
         message_type |-> hdr.message_type,
         command |-> hdr.command,
         length_all_data |-> hdr.length_all_data,
         has_params |-> FALSE,
         param_size |-> 0,
         data_type |-> data_type,
         start_of_data_pos |-> start_of_data,
         data_length |-> data_length,
         data |-> data,
         hex |-> IF data.t = "bytearray" THEN PyStr(HexSp(data.v)) ELSE PyNone,
         end_data_marker |-> hdr.end_data_marker,
         checksum |-> hdr.checksum,
         message_end_marker |-> hdr.message_end_marker,
         message |-> PySlice(msg, 1, -1)]

\* the REQUEST layout
StructureRequest(msg, hdr) ==
    LET has_params == hdr.length_all_data > 1
        param_size == IF has_params THEN b2i(PySlice(msg, 5, 6), TRUE) ELSE 0
        data_type == IF has_params THEN b2i(PySlice(msg, 7, 8), TRUE) ELSE -1
        data_length == IF has_params THEN b2i(PySlice(msg, 9, 10), TRUE)
                       ELSE b2i(PySlice(msg, 4, 5), TRUE)
        start_of_data == IF has_params THEN 10 ELSE 5
        data == PySlice(msg, start_of_data, start_of_data + data_length)
    IN  [shape |-> "request",
         message_start_marker |-> hdr.message_start_marker,
         b0_message |-> hdr.b0_message,
         message_type |-> hdr.message_type,
         command |-> hdr.command,
         length_all_data |-> hdr.length_all_data,
         has_params |-> has_params,
         param_size |-> param_size,
         data_type |-> data_type,
         start_of_data_pos |-> start_of_data,
         data_length |-> data_length,
         data |-> PyByteArray(data),
         hex |-> PyStr(HexSp(data)),
         end_data_marker |-> hdr.end_data_marker,
         checksum |-> hdr.checksum,
         message_end_marker |-> hdr.message_end_marker,
         message |-> PySlice(msg, 1, -1)]

\* response, byte 6 is zero: one chunk, data kept as a bytearray and hex
\* as one string
ChunksZeroType(msg) ==
    LET data_length == b2i(PySlice(msg, 11, 12), TRUE)
        data == PySlice(msg, 12, 12 + data_length)
    IN  <<B0DataChunk(b2i(PySlice(msg, 6, 7), TRUE), 255, data_length,
                      PyByteArray(data), PyStr(HexSp(data)))>>

\* response of command 0f
Chunks0f(msg) ==
    LET data_type == b2i(PySlice(msg, 6, 7), TRUE)
        data_length == b2i(PySlice(msg, 4, 5), TRUE) - 4
        data_size_bytes == Max(1, data_type \div 8)
        data == chunk_bytearray(PySlice(msg, 8, 8 + data_length),
                                data_size_bytes)
    IN  <<B0DataChunk(data_type, 255, data_length, PyList(data),
                      PyList([i \in 1..Len(data) |-> Hex(data[i])]))>>

\* response of command 35
Chunks35(msg) ==
    LET data_type == b2i(PySlice(msg, 11, 12), TRUE)
        data_length == b2i(PySlice(msg, 8, 9), TRUE) - 3
        data_size_bytes == Max(1, data_type \div 8)
        data == chunk_bytearray(PySlice(msg, 12, 12 + data_length),
                                data_size_bytes)
    IN  <<B0DataChunk(data_type, 255, data_length, PyList(data),
                      PyList([i \in 1..Len(data) |-> Hex(data[i])]))>>

\* response of command 42
Chunks42(msg) ==
    LET data_length == b2i(PySlice(msg, 8, 9), TRUE) - 14
        max_entries == b2i(PySlice(msg, 11, 13), FALSE)
        data_chunk_size == b2i(PySlice(msg, 13, 15), FALSE) \div 8
        data_type == b2i(PySlice(msg, 17, 18), TRUE)
        start_entry == b2i(PySlice(msg, 19, 21), FALSE)
        entries == b2i(PySlice(msg, 21, 23), FALSE)
        data == IF data_chunk_size = 0 THEN <<>>
                ELSE chunk_bytearray(PySlice(msg, 23, 23 + data_length),
                                     data_chunk_size)
    IN  <<B042DataChunk(data_type, 255, data_length, PyList(data),
                        PyList([i \in 1..Len(data) |-> Hex(data[i])]),
                        max_entries, entries, start_entry, data_chunk_size)>>

\* the first loop running while i <= length_all_data + 3
RECURSIVE RawChunks_past_length(_, _, _)
RawChunks_past_length(msg, i, length_all_data) ==
    IF i <= length_all_data + 3
    THEN LET chunk_data_length == b2i(PySlice(msg, i + 3, i + 4), TRUE)
             chunk_data == PySlice(msg, i + 1, i + 4 + chunk_data_length)
         IN  <<chunk_data>>
             \o RawChunks_past_length(msg, i + 4 + chunk_data_length,
                                      length_all_data)
    ELSE <<>>

\* default response layout, first loop: the raw sub-chunks from offset i on
RECURSIVE RawChunks(_, _, _)
RawChunks(msg, i, length_all_data) ==
    IF i <= length_all_data - 1
    THEN LET chunk_data_length == b2i(PySlice(msg, i + 3, i + 4), TRUE)
             chunk_data == PySlice(msg, i + 1, i + 4 + chunk_data_length)
         IN  <<chunk_data>>
             \o RawChunks(msg, i + 4 + chunk_data_length, length_all_data)
    ELSE <<>>

\* default response layout, second loop: one B0DataChunk per raw sub-chunk
StructChunk(chunk) ==
    LET data_type == b2i(PySlice(chunk, 0, 1), TRUE)
        data_size_bytes == Max(1, data_type \div 8)
        data == chunk_bytearray(PyFrom(chunk, 3), data_size_bytes)
    IN  B0DataChunk(b2i(PySlice(chunk, 0, 1), TRUE),
                    b2i(PySlice(chunk, 1, 2), TRUE),
                    b2i(PySlice(chunk, 2, 3), TRUE),
                    PyList(data),
                    PyList([i \in 1..Len(data) |-> HexSp(data[i])]))

ChunksDefault(msg, length_all_data) ==
    LET chunks == RawChunks(msg, 5, length_all_data)
    IN  [k \in 1..Len(chunks) |-> StructChunk(chunks[k])]

\* the PAGED_RESPONSE / RESPONSE / UNKNOWN layouts
StructureResponse(msg, hdr) ==
    LET page == b2i(PySlice(msg, 5, 6), TRUE)
        zero == b2i(PySlice(msg, 6, 7), TRUE) = 0
        with_params == ~zero /\ hdr.command \in {"35", "42"}
        struct_chunks ==
            IF zero THEN ChunksZeroType(msg)
            ELSE IF hdr.command = "0f" THEN Chunks0f(msg)
            ELSE IF hdr.command = "35" THEN Chunks35(msg)
            ELSE IF hdr.command = "42" THEN Chunks42(msg)
            ELSE ChunksDefault(msg, hdr.length_all_data)
    IN  [shape |-> "response",
         message_start_marker |-> hdr.message_start_marker,
         b0_message |-> hdr.b0_message,
         message_type |-> hdr.message_type,
         command |-> hdr.command,
         length_all_data |-> hdr.length_all_data,
         has_params |-> with_params,
         params |-> IF with_params THEN HexSp(PySlice(msg, 9, 11)) ELSE "",
         page |-> page,
         data |-> struct_chunks,
         message_counter |-> hdr.message_counter,
         end_data_marker |-> hdr.end_data_marker,
         checksum |-> hdr.checksum,
         message_end_marker |-> hdr.message_end_marker,
         message |-> PySlice(msg, 1, -1)]

\* the structured message, or None when no branch matches the message type
decode_b0_message_structure(msg) ==
    LET hdr == [message_start_marker |-> Hex(PySlice(msg, 0, 1)),
                b0_message |-> Hex(PySlice(msg, 1, 2)) = "b0",
                message_type |-> b2i(PySlice(msg, 2, 3), TRUE),
                command |-> Hex(PySlice(msg, 3, 4)),
                length_all_data |-> b2i(PySlice(msg, 4, 5), TRUE),
                message_counter |-> b2i(PySlice(msg, -4, -3), TRUE),
                end_data_marker |-> Hex(PySlice(msg, -3, -2)),
                checksum |-> Hex(PySlice(msg, -2, -1)),
                message_end_marker |-> Hex(PyFrom(msg, -1))]
    IN  IF hdr.message_type \in {MessageType_ADD, MessageType_REMOVE}
        THEN StructureAddRemove(msg, hdr)
        ELSE IF hdr.message_type = MessageType_REQUEST
        THEN StructureRequest(msg, hdr)
        ELSE IF hdr.message_type \in {MessageType_PAGED_RESPONSE,
                                      MessageType_RESPONSE,
                                      MessageType_UNKNOWN}
        THEN StructureResponse(msg, hdr)
        ELSE PyNone

(***************************************************************************)
(* B0MessageDecoder.validate_b0_message                                    *)
(***************************************************************************)
\* validate_b0_message with the checksum taken from the start marker on
validate_b0_message_from_start_marker(struct_msg) ==
    /\ struct_msg.message_start_marker = "0d"
    /\ struct_msg.end_data_marker = "43"
    /\ Hex(calculate_message_checksum(
              <<13>> \o PySlice(struct_msg.message, 0, -1)))
         = struct_msg.checksum
    /\ struct_msg.message_end_marker = "0a"

validate_b0_message(struct_msg) ==
    /\ struct_msg.message_start_marker = "0d"
    /\ struct_msg.end_data_marker = "43"
    /\ Hex(calculate_message_checksum(PySlice(struct_msg.message, 0, -1)))
         = struct_msg.checksum
    /\ struct_msg.message_end_marker = "0a"

(***************************************************************************)
(* PagedMessageManager.  self.pages is a dict, which keeps its keys in     *)
(* insertion order: a sequence of entries.  The key f"{command}_{page_no}" *)
(* is kept as its two parts (a hex command holds no "_", so split("_")     *)
(* gives these parts back).                                                *)
(***************************************************************************)
PageId(command, page_no) == [command |-> command, page_no |-> page_no]

\* has_active_paged_response looking for any page of the command
has_active_paged_response_any_page(pgs, command) ==
    /\ pgs # <<>>
    /\ \E i \in 1..Len(pgs) : pgs[i].page_id.command = command

has_active_paged_response(pgs, command) ==
    /\ pgs # <<>>
    /\ \E i \in 1..Len(pgs) : pgs[i].page_id = PageId(command, 1)

reset == <<>>

\* self.pages[page_id] = message: a present key keeps its position
DictSet(pgs, page_id, message) ==
    IF \E i \in 1..Len(pgs) : pgs[i].page_id = page_id
    THEN [i \in 1..Len(pgs) |->
            IF pgs[i].page_id = page_id
            THEN [page_id |-> page_id, message |-> message]
            ELSE pgs[i]]
    ELSE Append(pgs, [page_id |-> page_id, message |-> message])

\* add_page without the reset on page 1
add_page_without_reset(pgs, command, page_no, message) ==
    DictSet(pgs, PageId(command, page_no), message)

add_page(pgs, command, page_no, message) ==
    DictSet(IF page_no = 1 THEN reset ELSE pgs,
            PageId(command, page_no), message)

\* the positions in self.pages of the pages of a command
CommandPages(pgs, command) ==
    SelectSeq([i \in 1..Len(pgs) |-> i],
              LAMBDA i : pgs[i].page_id.command = command)

\* 0 when the command has no page; otherwise int() of a list: TypeError
get_highest_page_for_command(pgs, command) ==
    IF CommandPages(pgs, command) = <<>> THEN Return(0)
    ELSE Raise("TypeError", "get_highest_page_for_command")

\* the messages of the command's pages, in the order of self.pages
get_pages(pgs, command) ==
    LET pos == CommandPages(pgs, command)
    IN  [k \in 1..Len(pos) |-> pgs[pos[k]].message]

(***************************************************************************)
(* B0MessageDecoder.rebuild_paged_data_chunks.  The chunks list holds the  *)
(* chunk objects of the messages themselves, so extending an existing      *)
(* chunk changes the message it belongs to: a chunk object is named by     *)
(* <<message position, chunk position>> and st.msgs holds the chunk lists  *)
(* of the messages as they are changed.                                    *)
(***************************************************************************)
\* a.extend(b) on the data of a chunk
data_extend(a, b) ==
    IF a.t = "list"
    THEN PyList(a.v \o (IF b.t = "list" THEN b.v
                        ELSE [i \in 1..Len(b.v) |-> PyInt(b.v[i])]))
    ELSE IF b.t = "bytearray" THEN PyByteArray(a.v \o b.v)
    ELSE IF b.v = <<>> THEN a
    ELSE Raise("TypeError", "add_chunk_data_to_exisitng_chunk")

\* a.extend(b) on the hex of a chunk
hex_extend(a, b) ==
    IF a.t = "list"
    THEN PyList(a.v \o (IF b.t = "list" THEN b.v ELSE Chars(b.v)))
    ELSE Raise("AttributeError", "add_chunk_data_to_exisitng_chunk")

ChunkAt(st, ref) == st.msgs[ref[1]][ref[2]]

ChunkValues(st) == [i \in 1..Len(st.chunks) |-> ChunkAt(st, st.chunks[i])]

\* have_partial_chunk comparing the data type as well as the index
have_partial_chunk_same_type(chunks, chunk) ==
    \E i \in 1..Len(chunks) : /\ chunks[i].index = chunk.index
                               /\ chunks[i].data_type = chunk.data_type

have_partial_chunk(chunks, chunk) ==
    \E i \in 1..Len(chunks) : chunks[i].index = chunk.index

RECURSIVE add_chunk_data_to_exisitng_chunk(_, _, _)
add_chunk_data_to_exisitng_chunk(st, chunk, idx) ==
    IF idx > Len(st.chunks) \/ st.exc # PyNone THEN st
    ELSE LET ref == st.chunks[idx]
             existing_chunk == ChunkAt(st, ref)
             d == data_extend(existing_chunk.data, chunk.data)
             h == hex_extend(existing_chunk.hex, chunk.hex)
         IN  IF existing_chunk.index # chunk.index
             THEN add_chunk_data_to_exisitng_chunk(st, chunk, idx + 1)
             ELSE IF IsRaise(d) THEN [st EXCEPT !.exc = d]
             ELSE IF IsRaise(h)
             THEN [st EXCEPT !.msgs[ref[1]][ref[2]].data = d, !.exc = h]
             ELSE add_chunk_data_to_exisitng_chunk(
                    [st EXCEPT !.msgs[ref[1]][ref[2]] =
                        [existing_chunk EXCEPT
                            !.data = d, !.hex = h,
                            !.length = existing_chunk.length + chunk.length]],
                    chunk, idx + 1)

RECURSIVE RebuildLoop(_, _)
RebuildLoop(st, refs) ==
    IF refs = <<>> \/ st.exc # PyNone THEN st
    ELSE LET chunk == ChunkAt(st, Head(refs))
         IN  RebuildLoop(
               IF have_partial_chunk(ChunkValues(st), chunk)
               THEN add_chunk_data_to_exisitng_chunk(st, chunk, 1)
               ELSE [st EXCEPT !.chunks = Append(@, Head(refs))],
               Tail(refs))

\* messages: the messages in the order of the dict; the result holds the
\* chunk list (chunks), the chunk lists of the messages after the call
\* (msgs) and the exception raised, if any (exc)
rebuild_paged_data_chunks(messages) ==
    LET refs == Flatten([m \in 1..Len(messages) |->
                           [k \in 1..Len(messages[m].data) |-> <<m, k>>]])
        st == RebuildLoop([msgs |-> [m \in 1..Len(messages) |->
                                       messages[m].data],
                           chunks |-> <<>>, exc |-> PyNone], refs)
    IN  [chunks |-> ChunkValues(st), msgs |-> st.msgs, exc |-> st.exc]

\* paged_messages.update({message.page: message}): the stored keys are
\* strings and message.page is an int, so the message is a new, last entry
create_message_from_paged_messages(message, paged_messages) ==
    rebuild_paged_data_chunks(Append(paged_messages, message))

(***************************************************************************)
(* Semantic command decoders                                               *)
(***************************************************************************)
B0DecodedData(data) == [cls |-> "B0DecodedData", data |-> data]

B0GenDecodedData(length, data) ==
    [cls |-> "B0GenDecodedData", length |-> length, data |-> data]

\* the commands c for which a method b0_{c}_data_decoder exists
SpecificDecoders ==
    {"0f", "22", "24", "2a", "35", "36", "3d", "42", "4b", "51", "52", "64",
     "75", "77"}

\* one chunk of b0_gen_data_decoder: the dict, or the exception raised
GenDecodedChunk(chunk) ==
    IF chunk.data.t = "list"
       /\ \E i \in 1..Len(chunk.data.v) : IsPyInt(chunk.data.v[i])
    THEN Raise("AttributeError", "b0_gen_data_decoder")
    ELSE IF ~HasValue(DataTypesNames, chunk.data_type)
            \/ ~HasValue(IndexNames, chunk.index)
    THEN Raise("ValueError", "b0_gen_data_decoder")
    ELSE Return([type |-> NameIn(DataTypesNames, chunk.data_type),
                 idx |-> chunk.index,
                 idx_name |-> NameIn(IndexNames, chunk.index),
                 len |-> chunk.length,
                 data |-> IF chunk.data.t = "list"
                          THEN [i \in 1..Len(chunk.data.v) |->
                                  HexSp(chunk.data.v[i])]
                          ELSE HexSp(chunk.data.v)])

b0_gen_data_decoder(message) ==
    LET dec == [k \in 1..Len(message.data) |->
                  GenDecodedChunk(message.data[k])]
        bad == {k \in 1..Len(dec) : IsRaise(dec[k])}
    IN  IF bad # {}
        THEN dec[CHOOSE k \in bad : \A j \in bad : k <= j]
        ELSE Return(B0GenDecodedData(message.length_all_data,
                                     [k \in 1..Len(dec) |-> dec[k].ret]))

\* message.data[0] of an empty list is an IndexError, which b0_0f does not
\* catch
b0_0f_data_decoder(message) ==
    IF message.data = <<>> THEN Raise("IndexError", "b0_0f_data_decoder")
    ELSE Return(B0DecodedData(message.data[1]))

\* one entry of the 2a event log
EventEntry(event) ==
    LET device_type == b2i(PySlice(event, 4, 5), TRUE)
        zone_id == b2i(PySlice(event, 5, 6), TRUE)
        event_type == b2i(PySlice(event, 7, 8), TRUE)
    IN  [dt |-> decode_hex_timestamp(PySlice(event, 0, 4)),
         device |-> get_lookup_value(IndexNames, device_type),
         zone |-> IF device_type = 3 THEN zone_id + 1 ELSE zone_id,
         event |-> EVENTS[event_type + 1]]

\* the loop of b0_2a_data_decoder over the elements of the first chunk:
\* the entries, or the exception that ends the loop
RECURSIVE EventLoop(_, _)
EventLoop(elems, events) ==
    IF elems = <<>> THEN Return(events)
    ELSE LET event == Head(elems)
         IN  IF IsPyInt(event) \/ event = <<>>
             THEN Raise("TypeError", "b0_2a_data_decoder")
             ELSE IF b2i(PySlice(event, 7, 8), TRUE) >= Len(EVENTS)
             THEN Raise("IndexError", "b0_2a_data_decoder")
             ELSE EventLoop(Tail(elems), Append(events, EventEntry(event)))

\* IndexError is caught and gives "Invalid Data"; iterating a bytearray
\* gives ints, which cannot be sliced (TypeError, not caught)
b0_2a_data_decoder(message) ==
    IF message.data = <<>> THEN Return(B0DecodedData("Invalid Data"))
    ELSE LET chunk == message.data[1]
             r == EventLoop(IF chunk.data.t = "list" THEN chunk.data.v
                            ELSE [i \in 1..Len(chunk.data.v) |->
                                    PyInt(chunk.data.v[i])], <<>>)
         IN  IF ~IsRaise(r) THEN Return(B0DecodedData(r.ret))
             ELSE IF r.exc = "IndexError"
             THEN Return(B0DecodedData("Invalid Data"))
             ELSE r

b0_36_data_decoder(message) == b0_2a_data_decoder(message)

(***************************************************************************)
(* Values the specific decoders return, and the steps they share           *)
(***************************************************************************)
\* a str of decoded text, as the codes of its characters
PyText(codes) == [t |-> "text", v |-> codes]

\* a float with one decimal, in tenths
PyFloat(tenths) == [t |-> "float", tenths |-> tenths]

PySet(v) == [t |-> "set", v |-> v]

\* a dict with computed keys: its <<key, value>> items in insertion order
PyDict(items) == [t |-> "dict", v |-> items]

\* d[key] = value
DictPut(items, key, value) ==
    IF \E i \in 1..Len(items) : items[i][1] = key
    THEN [i \in 1..Len(items) |->
            IF items[i][1] = key THEN <<key, value>> ELSE items[i]]
    ELSE Append(items, <<key, value>>)

\* d.update({key: value}) for every pair in turn
RECURSIVE DictUpdate(_, _)
DictUpdate(items, pairs) ==
    IF pairs = <<>> THEN items
    ELSE DictUpdate(DictPut(items, Head(pairs)[1], Head(pairs)[2]),
                    Tail(pairs))

\* what "for x in chunk.data" yields: the elements of a list, the ints of a
\* bytearray
Iter(data) ==
    IF data.t = "list" THEN data.v
    ELSE [i \in 1..Len(data.v) |-> PyInt(data.v[i])]

\* the values of a loop whose steps are rs, or the exception of the first
\* step that raises
Collect(rs) ==
    LET bad == {k \in 1..Len(rs) : IsRaise(rs[k])}
    IN  IF bad # {} THEN rs[CHOOSE k \in bad : \A j \in bad : k <= j]
        ELSE Return([k \in 1..Len(rs) |-> rs[k].ret])

\* try: r  except exc: value
Catch(r, exc, value) ==
    IF IsRaise(r) /\ r.exc = exc THEN Return(value) ELSE r

\* b2i(data[k]): data[k] of a short sequence is an IndexError (raised in
\* the function named at), int.from_bytes of an int is a TypeError
ElemInt(data, k, at) ==
    IF k >= Len(data) THEN Raise("IndexError", at)
    ELSE IF IsPyInt(data[k + 1]) THEN Raise("TypeError", "b2i")
    ELSE Return(b2i(data[k + 1], TRUE))

\* bytes.decode("ascii", errors="ignore")
AsciiIgnore(bs) == SelectSeq(bs, LAMBDA b : b < 128)

\* str.rstrip(c) / str.replace(c, "")
RECURSIVE RStrip(_, _)
RStrip(cs, c) ==
    IF cs # <<>> /\ cs[Len(cs)] = c THEN RStrip(SubSeq(cs, 1, Len(cs) - 1), c)
    ELSE cs

Remove(cs, c) == SelectSeq(cs, LAMBDA x : x # c)

\* hex_string.replace("ff", ""): left to right, on the digits
RECURSIVE RemoveFF(_)
RemoveFF(s) ==
    IF Len(s) < 2 THEN s
    ELSE IF SubSeq(s, 1, 2) = "ff" THEN RemoveFF(SubSeq(s, 3, Len(s)))
    ELSE SubSeq(s, 1, 1) \o RemoveFF(SubSeq(s, 2, Len(s)))

(***************************************************************************)
(* textwrap.wrap(text, width) for a text without tab and hyphen: the text  *)
(* is split into runs of blanks and runs of other characters, and the      *)
(* lines are filled run by run.                                            *)
(***************************************************************************)
\* _munge_whitespace: \n \v \f \r become a blank
Munge(text) ==
    [i \in 1..Len(text) |-> IF text[i] \in {10, 11, 12, 13} THEN 32 ELSE text[i]]

\* length of the run the text starts with
RECURSIVE RunLen(_)
RunLen(text) ==
    IF Len(text) < 2 THEN Len(text)
    ELSE IF (text[1] = 32) # (text[2] = 32) THEN 1
    ELSE 1 + RunLen(Tail(text))

RECURSIVE Runs(_)
Runs(text) ==
    IF text = <<>> THEN <<>>
    ELSE <<SubSeq(text, 1, RunLen(text))>>
         \o Runs(SubSeq(text, RunLen(text) + 1, Len(text)))

\* chunk.strip() == ''
Blank(chunk) == \A i \in 1..Len(chunk) : chunk[i] \in {28, 29, 30, 31, 32}

\* the runs that fit on the current line
RECURSIVE FillLine(_, _, _, _)
FillLine(chunks, cur_line, cur_len, width) ==
    IF chunks # <<>> /\ cur_len + Len(Head(chunks)) <= width
    THEN FillLine(Tail(chunks), Append(cur_line, Head(chunks)),
                  cur_len + Len(Head(chunks)), width)
    ELSE [cur_line |-> cur_line, cur_len |-> cur_len, chunks |-> chunks]

\* the line with the part of a too long run that still fits (_handle_long_word)
LongWord(f, width) ==
    IF f.chunks # <<>> /\ Len(Head(f.chunks)) > width
    THEN [cur_line |-> Append(f.cur_line,
                              SubSeq(Head(f.chunks), 1, width - f.cur_len)),
          chunks |-> <<SubSeq(Head(f.chunks), width - f.cur_len + 1,
                              Len(Head(f.chunks)))>> \o Tail(f.chunks)]
    ELSE [cur_line |-> f.cur_line, chunks |-> f.chunks]

\* drop a blank run at the end of the line
DropBlank(cur_line) ==
    IF cur_line # <<>> /\ Blank(cur_line[Len(cur_line)])
    THEN SubSeq(cur_line, 1, Len(cur_line) - 1)
    ELSE cur_line

AddLine(lines, cur_line) ==
    IF cur_line # <<>> THEN Append(lines, Flatten(cur_line)) ELSE lines

RECURSIVE WrapChunks(_, _, _)
\* one line is done: the rest of the runs
WrapLine(l, lines, width) ==
    WrapChunks(l.chunks, AddLine(lines, DropBlank(l.cur_line)), width)

\* _wrap_chunks: a blank run that would start a line after the first is
\* dropped
WrapChunks(chunks, lines, width) ==
    IF chunks = <<>> THEN lines
    ELSE IF Blank(Head(chunks)) /\ lines # <<>>
    THEN WrapLine(LongWord(FillLine(Tail(chunks), <<>>, 0, width), width),
                  lines, width)
    ELSE WrapLine(LongWord(FillLine(chunks, <<>>, 0, width), width),
                  lines, width)

wrap(text, width) == WrapChunks(Runs(Munge(text)), <<>>, width)

(***************************************************************************)
(* B0MessageDecoder._data_type_decoder and the tables of the 35 / 42       *)
(* decoders                                                                *)
(***************************************************************************)
\* DataType: <<value, name>> of every member
DataType ==
    {<<0, "ZERO_PADDED_STRING">>, <<1, "DIRECT_MAP_STRING">>,
     <<2, "FF_PADDED_STRING">>, <<3, "DOUBLE_LE_INT">>, <<4, "INTEGER">>,
     <<6, "STRING">>, <<8, "SPACE_PADDED_STRING">>,
     <<10, "SPACE_PADDED_STRING_LIST">>}

\* ZoneStatus and ZoneBrightness: <<value, name>> of every member
ZoneStatus ==
    {<<0, "NA">>, <<1, "OPEN">>, <<2, "CLOSED">>, <<3, "MOTION">>,
     <<4, "CHECKIN">>}

ZoneBrightness ==
    {<<0, "DARKNESS">>, <<1, "PARTIAL_LIGHT">>, <<2, "DAYLIGHT">>}

\* Command35Settings: <<value, name>> of every member
Command35Settings ==
    {<<"00 00", "COMMS_CS_REC1_ACCT">>, <<"01 00", "COMMS_CS_REC2_ACCT">>,
     <<"02 00", "PANEL_SERIAL_NO">>, <<"03 00", "COMMS_CS_REC1_IP">>,
     <<"04 00", "COMMS_CS_REC1_PORT">>, <<"05 00", "COMMS_CS_REC2_IP">>,
     <<"06 00", "COMMS_CS_REC2_PORT">>, <<"07 00", "CAPABILITIES">>,
     <<"08 00", "USER_CODES">>, <<"0d 00", "ZONE_NAMES">>,
     <<"0f 00", "DOWNLOAD_CODE">>, <<"15 01", "POWERLINK_SW_VERSION">>,
     <<"18 01", "EMAIL_REPORTED_EVENTS">>,
     <<"19 01", "SMS_REPORTED_EVENTS">>, <<"1a 01", "MMS_REPORTED_EVENTS">>,
     <<"24 00", "PANEL_EPROM_VERSION">>, <<"27 00", "TYPE_OFFSETS">>,
     <<"28 00", "CAPABILITIES2">>, <<"2b 00", "UNKNOWN_SOFTWARE_VERSION">>,
     <<"2c 00", "PANEL_DEFAULT_VERSION">>,
     <<"2d 00", "PANEL_SOFTWARE_VERSION">>,
     <<"30 00", "PARTITIONS_ENABLED">>, <<"31 00", "ASSIGNED_ZONE_TYPES">>,
     <<"32 00", "ASSIGNED_ZONE_NAMES">>, <<"32 01", "UNKNOWN_SW_VERSION">>,
     <<"33 00", "SOMETHING_ZONES">>, <<"34 00", "MAP_VALUE">>,
     <<"35 00", "MAP_VALUE_2">>, <<"36 00", "SOMETHING_ZONES_2">>,
     <<"37 00", "SOMETHING_32_OF">>, <<"38 00", "SOMETHING_32_OF_2">>,
     <<"39 00", "SOMETHING_8_OF">>, <<"3c 00", "PANEL_HARDWARE_VERSION">>,
     <<"3d 00", "PANEL_RSU_VERSION">>, <<"3e 00", "PANEL_BOOT_VERSION">>,
     <<"42 00", "CUSTOM_ZONE_NAMES">>, <<"45 00", "ZONE_NAMES2">>,
     <<"46 00", "CUSTOM_ZONE_NAMES2">>, <<"47 00", "H24_TIME_FORMAT">>,
     <<"48 00", "US_DATE_FORMAT">>, <<"4e 00", "PARTITIONS">>,
     <<"50 01", "TROUBLES">>, <<"54 00", "INSTALLER_CODE">>,
     <<"54 01", "DHCP_IP">>, <<"55 00", "MASTER_CODE">>,
     <<"56 00", "GUARD_CODE">>, <<"58 00", "EXIT_DELAY">>,
     <<"5b 00", "BYPASS_ARM">>, <<"5b 01", "KIDS_COME_HOME">>,
     <<"61 00", "DURESS_CODE">>, <<"70 01", "ENABLE_API">>,
     <<"71 01", "PANEL_SERIAL">>, <<"73 01", "HOME_AUTOMATION_SERVICE">>,
     <<"74 01", "ENABLE_SSH">>, <<"7b 01", "MAYBE_MAX_USER_CODES">>,
     <<"80 00", "COMMS_GPRS_APN">>, <<"81 00", "COMMS_GPRS_USER">>,
     <<"82 00", "COMMS_GPRS_PWD">>, <<"85 01", "SSL_FOR_IPMP">>,
     <<"87 01", "LOG_EMAIL_SEND_NOW">>, <<"89 01", "UNKNOWN_EMAIL">>,
     <<"8a 01", "UNKNOWN_PWD">>, <<"8c 00", "COMMS_CS_REC1_TELNO">>,
     <<"8d 00", "COMMS_CS_REC2_TELNO">>, <<"8d 01", "DNS_NAME">>,
     <<"8e 00", "COMMS_CS_REC12_SMS">>, <<"8e 01", "ABORT_TIME">>,
     <<"8f 01", "ENTRY_DELAY">>, <<"9d 01", "DO_NOT_USE">>,
     <<"a4 00", "EMAIL_ADDRESSES">>, <<"a5 00", "PHONE_NUMBERS">>,
     <<"a6 00", "VIEW_ON_DEMAND">>,
     <<"a7 00", "VIEW_ON_DEMAND_TIME_WINDOW">>, <<"a8 01", "LOG_FTP_SITE">>,
     <<"a9 01", "LOG_FTP_UID">>, <<"aa 01", "LOG_FTP_PWD">>,
     <<"ae 00", "DHCP_MODE">>, <<"af 00", "POWERLINK_IP">>,
     <<"b0 00", "POWERLINK_SUBNET">>, <<"b1 00", "POWERLINK_GATEWAY">>,
     <<"e2 00", "USER_PARTITION_ACCESS">>, <<"e5 00", "USER_CODES2">>,
     <<"e8 00", "PANEL_LANGUAGE">>, <<"e9 00", "ACCEPTED_CHARS_UPPER">>,
     <<"ea 00", "ACCEPTED_CHARS_LOWER">>, <<"eb 00", "INVESTIGATE_MORE">>}

\* refs.py: ZONE_TYPES and SYSTEM_STATUS
ZONE_TYPES ==
    <<"Non-Alarm", "Emergency", "Flood", "Gas", "Delay 1", "Delay 2",
     "Interior-Follow", "Perimeter", "Perimeter-Follow", "24 Hours Silent",
     "24 Hours Audible", "Fire", "Interior", "Home Delay", "Temperature",
     "Outdoor", "16">>

SYSTEM_STATUS ==
    <<"Disarmed", "ExitDelay_ArmHome", "ExitDelay_ArmAway", "EntryDelay",
     "Stay", "Armed", "UserTest", "Downloading", "Programming", "Installer",
     "Home Bypass", "Away Bypass", "Ready", "NotReady", "??", "??", "Disarm",
     "ExitDelay", "ExitDelay", "EntryDelay", "StayInstant", "ArmedInstant",
     "??", "??", "??", "??", "??", "??", "??", "??", "??", "??">>

get_data_type(data_type) ==
    IF HasValue(DataType, data_type) THEN NameIn(DataType, data_type)
    ELSE "UNKNOWN-" \o ToString(data_type)

\* a value with the Python type the callers branch on: "int", "str" (a hex
\* string), "text", "list" or "None"
Typed(kind, v) == [ret |-> v, kind |-> kind]

\* the names textwrap.wrap gave, cleaned of \x00 and trailing blanks
CleanNames(names) ==
    IF Len(names) = 1
    THEN Typed("text", PyText(RStrip(Remove(names[1], 0), 32)))
    ELSE Typed("list", [k \in 1..Len(names) |->
                          PyText(RStrip(Remove(names[k], 0), 32))])

\* data is an int (an element of a bytearray): the first method called on
\* it raises
data_type_decoder_int(data_type) ==
    IF data_type = 3 THEN Raise("TypeError", "_data_type_decoder")
    ELSE IF data_type = 4 THEN Raise("TypeError", "b2i")
    ELSE Raise("AttributeError", "_data_type_decoder")

\* data is bytes
data_type_decoder(data_type, data, string_size) ==
    IF IsPyInt(data) THEN data_type_decoder_int(data_type)
    ELSE IF data_type = 0
    THEN Typed("text", PyText(RStrip(AsciiIgnore(data), 0)))
    ELSE IF data_type = 1 THEN Typed("str", Hex(data))
    ELSE IF data_type = 2 THEN Typed("str", RemoveFF(Hex(data)))
    ELSE IF data_type = 3
    THEN IF Len(data) > 2
         THEN Typed("list", [k \in 1..((Len(data) + 1) \div 2) |->
                               b2i(PySlice(data, 2 * k - 2, 2 * k), FALSE)])
         ELSE Typed("int", b2i(PySlice(data, 0, 2), FALSE))
    ELSE IF data_type = 4
    THEN IF Len(data) > 1 THEN Typed("list", data)
         ELSE IF Len(data) = 1 THEN Typed("int", data[1])
         ELSE Typed("None", PyNone)
    ELSE IF data_type = 6 THEN Typed("text", PyText(AsciiIgnore(data)))
    ELSE IF data_type = 8
    THEN Typed("text", PyText(RStrip(AsciiIgnore(data), 32)))
    ELSE IF data_type = 10
    THEN IF \E i \in 1..Len(data) : data[i] >= 128
         THEN Raise("UnicodeDecodeError", "_data_type_decoder")
         ELSE IF \E i \in 1..Len(data) : data[i] \in {9, 45}
         THEN Raise("NotModelled", "textwrap.wrap")
         ELSE CleanNames(wrap(data, string_size))
    ELSE Typed("str", HexSp(data))

\* if decoded: if len(decoded) == 1: decoded = decoded[0]  else: None
\* (len() of an int is a TypeError)
Unwrap(r, at) ==
    IF IsRaise(r) THEN r
    ELSE IF r.kind = "None" THEN Return(PyNone)
    ELSE IF r.kind = "int"
    THEN IF r.ret = 0 THEN Return(PyNone) ELSE Raise("TypeError", at)
    ELSE IF r.kind = "str"
    THEN IF r.ret = "" THEN Return(PyNone) ELSE Return(r.ret)
    ELSE IF r.kind = "text"
    THEN IF r.ret.v = <<>> THEN Return(PyNone) ELSE Return(r.ret)
    ELSE IF r.ret = <<>> THEN Return(PyNone)
    ELSE IF Len(r.ret) = 1 THEN Return(r.ret[1])
    ELSE Return(r.ret)

(***************************************************************************)
(* decoders/b0_35_command.py: MessageB035DataDecoder                       *)
(***************************************************************************)
\* B03507IndexName: <<value, name>> of every member
B03507IndexName ==
    {<<0, "REPEATERS">>, <<1, "X10">>, <<2, "SIRENS">>, <<3, "ZONES">>,
     <<4, "KEYPADS">>, <<5, "KEYFOBS">>, <<6, "USERCODES">>,
     <<7, "CAMERASA">>, <<8, "UNK8">>, <<9, "POWERLINK">>, <<10, "TAGS">>,
     <<11, "CAMERASB">>, <<12, "PANEL">>, <<13, "UNK13">>, <<14, "EVENTS">>,
     <<15, "PARTITIONS">>, <<16, "UNK16">>, <<17, "UNK17">>,
     <<18, "UKN18">>, <<19, "UNK19">>}

\* range(0, n, step) as the sequence of its members
Range(n, step) == [k \in 1..((Max(n, 0) + step - 1) \div step) |-> (k - 1) * step]

\* CAPABILITIES: for i in range(0, len(data) - 1, 2)
m35_07_00_decoder(data) ==
    LET is == Range(Len(data) - 1, 2)
        r == Collect([k \in 1..Len(is) |->
                 IF ~HasValue(B03507IndexName, is[k] \div 2)
                 THEN Raise("ValueError", "m35_07_00_decoder")
                 ELSE Return(<<NameIn(B03507IndexName, is[k] \div 2),
                               b2i(PySlice(data, is[k], is[k] + 2), FALSE)>>)])
    IN  IF IsRaise(r) THEN r ELSE Return(PyDict(r.ret))

\* USER CODES: the hex digits in groups of 4, "0000" left out
m35_08_00_decoder(data) ==
    LET hex == Hex(data)
        is == Range(Len(hex) - 1, 4)
        codes == [k \in 1..Len(is) |->
                    <<k, SubSeq(hex, is[k] + 1, Min(is[k] + 4, Len(hex)))>>]
    IN  Return(PyDict(SelectSeq(codes, LAMBDA c : c[2] # "0000")))

\* ASSIGNED_ZONE_TYPES: for i in range(0, len(data) - 1)
m35_31_00_decoder(data) ==
    Return([k \in 1..Max(Len(data) - 1, 0) |->
              IF data[k] < Len(ZONE_TYPES) THEN ZONE_TYPES[data[k] + 1]
              ELSE "UNKNOWN"])

\* ASSIGNED_ZONE_NAMES: for i in range(0, len(data) - 1)
m35_32_00_decoder(data) ==
    Return([k \in 1..Max(Len(data) - 1, 0) |-> data[k]])

\* str.split("\n")
RECURSIVE SplitLines(_, _)
SplitLines(text, cur) ==
    IF text = <<>> THEN <<cur>>
    ELSE IF Head(text) = 10 THEN <<cur>> \o SplitLines(Tail(text), <<>>)
    ELSE SplitLines(Tail(text), Append(cur, Head(text)))

\* zone names: data.decode("ascii") is strict
m35_45_00_decoder(data) ==
    IF \E i \in 1..Len(data) : data[i] >= 128
    THEN Raise("UnicodeDecodeError", "m35_45_00_decoder")
    ELSE LET names == SelectSeq(SplitLines(data, <<>>),
                                LAMBDA name : name # <<>>)
         IN  Return([k \in 1..Len(names) |-> PyText(RStrip(names[k], 32))])

m35_46_00_decoder(data) == m35_45_00_decoder(data)

\* wrap() of hex digits: pieces of size digits
RECURSIVE Pieces(_, _)
Pieces(s, size) ==
    IF Len(s) <= size THEN (IF s = "" THEN <<>> ELSE <<s>>)
    ELSE <<SubSeq(s, 1, size)>> \o Pieces(SubSeq(s, size + 1, Len(s)), size)

\* ".".join(items)
RECURSIVE JoinDot(_)
JoinDot(items) ==
    IF items = <<>> THEN ""
    ELSE IF Len(items) = 1 THEN items[1]
    ELSE items[1] \o "." \o JoinDot(Tail(items))

\* dhcp info: items[2] of fewer than three items is an IndexError
m35_54_01_decoder(data) ==
    LET items == Pieces(Hex(data), 12)
    IN  IF Len(items) < 3 THEN Raise("IndexError", "m35_54_01_decoder")
        ELSE Return(PyDict(<<<<"IP", JoinDot(Pieces(items[1], 3))>>,
                             <<"Subnet", JoinDot(Pieces(items[2], 3))>>,
                             <<"Gateway", JoinDot(Pieces(items[3], 3))>>>>))

\* the settings s for which a method m35_{s}_decoder exists
M35Decoders == {"07_00", "08_00", "31_00", "32_00", "45_00", "46_00", "54_01"}

M35Decode(setting, data) ==
    IF setting = "07_00" THEN m35_07_00_decoder(data)
    ELSE IF setting = "08_00" THEN m35_08_00_decoder(data)
    ELSE IF setting = "31_00" THEN m35_31_00_decoder(data)
    ELSE IF setting = "32_00" THEN m35_32_00_decoder(data)
    ELSE IF setting = "45_00" THEN m35_45_00_decoder(data)
    ELSE IF setting = "46_00" THEN m35_46_00_decoder(data)
    ELSE m35_54_01_decoder(data)

(***************************************************************************)
(* decoders/b0_42_command.py: MessageB042DataDecoder                       *)
(***************************************************************************)
\* output[0] when there is one entry, else the list
OneOrList(output) == IF Len(output) = 1 THEN output[1] ELSE output

zero_padded_string_decoder(data) ==
    IF \E k \in 1..Len(data) : IsPyInt(data[k])
    THEN Raise("AttributeError", "zero_padded_string_decoder")
    ELSE Return(OneOrList([k \in 1..Len(data) |->
                             PyText(RStrip(AsciiIgnore(data[k]), 0))]))

ff_terminated_string_decoder(data) ==
    IF \E k \in 1..Len(data) : IsPyInt(data[k])
    THEN Raise("AttributeError", "ff_terminated_string_decoder")
    ELSE Return(OneOrList([k \in 1..Len(data) |-> RemoveFF(Hex(data[k]))]))

\* the settings s for which a method m42_{s}_decoder exists
M42Decoders == {"80_00", "81_00", "82_00", "a4_00", "a5_00"}

M42Decode(setting, data) ==
    IF setting = "a5_00" THEN ff_terminated_string_decoder(data)
    ELSE zero_padded_string_decoder(data)

\* slugify(value)
RECURSIVE slugify(_)
slugify(value) ==
    IF value = "" THEN ""
    ELSE (IF SubSeq(value, 1, 1) = " " THEN "_" ELSE SubSeq(value, 1, 1))
         \o slugify(SubSeq(value, 2, Len(value)))

(***************************************************************************)
(* The decoders of the commands 22, 24, 35, 3d, 42, 4b, 51, 52, 64, 75, 77 *)
(***************************************************************************)
\* one step of the loop of b0_22: IndexName(idx) of a value the enum does
\* not have raises ValueError, which "except KeyError" does not catch
Capability(idx, data) ==
    IF ~HasValue(IndexNames, idx) THEN Raise("ValueError", "b0_22_data_decoder")
    ELSE IF IsPyInt(data) THEN Raise("TypeError", "b2i")
    ELSE Return(<<NameIn(IndexNames, idx), b2i(data, FALSE)>>)

b0_22_data_decoder(message) ==
    IF message.data = <<>> THEN Raise("IndexError", "b0_22_data_decoder")
    ELSE LET elems == Iter(message.data[1].data)
             r == Collect([k \in 1..Len(elems) |->
                             Capability(k - 1, elems[k])])
         IN  IF IsRaise(r) THEN r ELSE Return(B0DecodedData(PyDict(r.ret)))

DaysInMonth(year, month) ==
    IF month = 2
    THEN IF year % 4 = 0 /\ (year % 100 # 0 \/ year % 400 = 0) THEN 29 ELSE 28
    ELSE IF month \in {4, 6, 9, 11} THEN 30 ELSE 31

\* the fields datetime.strptime accepts
ValidDateTime(f) ==
    /\ f[6] + 2000 <= 9999
    /\ f[5] \in 1..12
    /\ f[4] \in 1..DaysInMonth(f[6] + 2000, f[5])
    /\ f[3] \in 0..23
    /\ f[2] \in 0..59
    /\ f[1] \in 0..59

\* helpers.decode_hex_datetime: secs mins hour day month year; the datetime
\* as its fields
decode_hex_datetime(data) ==
    LET f == Collect([k \in 1..6 |->
                        ElemInt(data, k - 1, "decode_hex_datetime")])
    IN  IF IsRaise(f) THEN f
        ELSE IF ~ValidDateTime(f.ret)
        THEN Raise("ValueError", "decode_hex_datetime")
        ELSE Return([year |-> f.ret[6] + 2000, month |-> f.ret[5],
                     day |-> f.ret[4], hour |-> f.ret[3], mins |-> f.ret[2],
                     secs |-> f.ret[1]])

\* bool(sys & (0b1 << k))
Bit(sys, k) == (sys \div (2 ^ k)) % 2 = 1

\* the flags of one partition
PartitionFlags(state, sys) ==
    PyDict(<<<<"State", SYSTEM_STATUS[state + 1]>>,
             <<"Ready", Bit(sys, 0)>>,
             <<"Alarm in Memory", Bit(sys, 1)>>,
             <<"Trouble", Bit(sys, 2)>>,
             <<"Bypass", Bit(sys, 3)>>,
             <<"Last 10 Secs", Bit(sys, 4)>>,
             <<"Zone Event", Bit(sys, 5)>>,
             <<"Status Changed", Bit(sys, 6)>>,
             <<"Alarm Event", Bit(sys, 7)>>>>)

\* one step of the loop over the partitions of b0_24
PartitionState(partition, state) ==
    IF IsRaise(state) THEN state
    ELSE IF Len(partition) < 2 THEN Raise("IndexError", "b0_24_data_decoder")
    ELSE IF IsPyInt(partition[2]) THEN Raise("TypeError", "b0_24_data_decoder")
    ELSE IF state.ret >= Len(SYSTEM_STATUS)
    THEN Raise("IndexError", "b0_24_data_decoder")
    ELSE Return(PartitionFlags(state.ret, partition[2][1]))

PartitionStates(partition_data) ==
    Collect([k \in 1..Len(partition_data) |->
               PartitionState(partition_data[k],
                              ElemInt(partition_data[k], 0,
                                      "b0_24_data_decoder"))])

\* the body of the try of b0_24
Decode24(data, dte, partition_count, states) ==
    IF IsRaise(dte) THEN dte
    ELSE IF IsRaise(partition_count) THEN partition_count
    ELSE IF IsRaise(states) THEN states
    ELSE Return(B0DecodedData(PyDict(
            <<<<"datetime", dte.ret>>,
              <<"partitions", partition_count.ret>>,
              <<"states", PyDict([k \in 1..Len(states.ret) |->
                                    <<k, states.ret[k]>>])>>>>)))

Try24(data) ==
    Decode24(data, decode_hex_datetime(PySlice(data, 8, 15)),
             ElemInt(data, 16, "b0_24_data_decoder"),
             PartitionStates(chunk_bytearray(PyFrom(data, 17), 4)))

\* except IndexError: return {"Invalid Data"}, a set
b0_24_data_decoder(message) ==
    IF message.data = <<>> THEN Return(PySet({"Invalid Data"}))
    ELSE Catch(Try24(Iter(message.data[1].data)), "IndexError",
               PySet({"Invalid Data"}))

B0Cmd35DecodedData(length, config, config_str, data_type, data) ==
    [cls |-> "B0Cmd35DecodedData", length |-> length, config |-> config,
     config_str |-> config_str, data_type |-> data_type, data |-> data]

B0Cmd42DecodedData(length, config, config_str, data_type, data) ==
    [cls |-> "B0Cmd42DecodedData", length |-> length, config |-> config,
     config_str |-> config_str, data_type |-> data_type, data |-> data]

\* Command35Settings(message.params).name, or "Unknown"
ConfigStr(params) ==
    IF HasValue(Command35Settings, params)
    THEN NameIn(Command35Settings, params) ELSE "Unknown"

\* the generic decoding of b0_35 for the data type of the chunk
Generic35(chunk, data) ==
    IF chunk.data_type # 4
    THEN Unwrap(data_type_decoder(chunk.data_type, data, 16),
                "b0_35_data_decoder")
    ELSE LET r == Collect([k \in 1..Len(chunk.data.v) |->
                             data_type_decoder(4, chunk.data.v[k], 30)])
         IN  IF IsRaise(r) THEN r
             ELSE Unwrap(Typed("list", r.ret), "b0_35_data_decoder")

\* decoded by m35_{setting}_decoder when there is one
Decoded35(message, chunk, setting, data) ==
    IF setting \in M35Decoders THEN M35Decode(setting, data)
    ELSE Generic35(chunk, data)

Settings35(message, chunk, decoded) ==
    IF IsRaise(decoded) THEN decoded
    ELSE Return(B0Cmd35DecodedData(chunk.length, message.params,
                                   ConfigStr(message.params),
                                   get_data_type(chunk.data_type),
                                   decoded.ret))

\* bytes.join(b"", chunk.data) of ints is a TypeError
Try35(message, chunk) ==
    IF \E k \in 1..Len(Iter(chunk.data)) : IsPyInt(Iter(chunk.data)[k])
    THEN Raise("TypeError", "b0_35_data_decoder")
    ELSE Settings35(message, chunk,
                    Decoded35(message, chunk, slugify(message.params),
                              Flatten(chunk.data.v)))

b0_35_data_decoder(message) ==
    IF message.data = <<>> THEN Return(PySet({"Invalid Data"}))
    ELSE Catch(Try35(message, message.data[1]), "IndexError",
               PySet({"Invalid Data"}))

\* one zone of b0_3d: the temperature; a zone whose byte is ff is skipped
ZoneTemp(btemp) ==
    IF IsPyInt(btemp) THEN Raise("TypeError", "b2i")
    ELSE Return([skip |-> btemp = <<255>>,
                 v |-> PyFloat(5 * b2i(btemp, TRUE) - 405)])

\* the dict zone + 1 -> value of the zones that are not skipped
ZoneDict(zones) ==
    LET kept == SelectSeq([k \in 1..Len(zones) |-> k],
                          LAMBDA k : ~zones[k].skip)
    IN  PyDict([j \in 1..Len(kept) |-> <<kept[j], zones[kept[j]].v>>])

ZoneData(chunk, zones) ==
    IF IsRaise(zones) THEN zones
    ELSE Return(B0DecodedData(PyDict(
            <<<<get_lookup_value(IndexNames, chunk.index),
                ZoneDict(zones.ret)>>>>)))

b0_3d_data_decoder(message) ==
    IF message.data = <<>> THEN Return(B0DecodedData("Invalid Data"))
    ELSE ZoneData(message.data[1],
                  Collect([k \in 1..Len(message.data[1].data.v) |->
                             ZoneTemp(Iter(message.data[1].data)[k])]))

\* the generic decoding of b0_42: chunk.chunk_size is read for every
\* element, and a B0DataChunk has no such attribute
Generic42(chunk) ==
    IF chunk.data.v # <<>> /\ "chunk_size" \notin DOMAIN chunk
    THEN Raise("AttributeError", "b0_42_data_decoder")
    ELSE LET r == Collect([k \in 1..Len(chunk.data.v) |->
                             data_type_decoder(chunk.data_type,
                                               Iter(chunk.data)[k],
                                               chunk.chunk_size)])
         IN  IF IsRaise(r) THEN r
             ELSE Unwrap(Typed("list", r.ret), "b0_42_data_decoder")

Decoded42(chunk, setting) ==
    IF setting \in M42Decoders THEN M42Decode(setting, Iter(chunk.data))
    ELSE Generic42(chunk)

Settings42(message, chunk, decoded) ==
    IF IsRaise(decoded) THEN decoded
    ELSE Return(B0Cmd42DecodedData(chunk.length, message.params,
                                   ConfigStr(message.params),
                                   get_data_type(chunk.data_type),
                                   decoded.ret))

b0_42_data_decoder(message) ==
    IF message.data = <<>> THEN Return(PySet({"Invalid Data"}))
    ELSE Catch(Settings42(message, message.data[1],
                          Decoded42(message.data[1],
                                    slugify(message.params))),
               "IndexError", PySet({"Invalid Data"}))

\* the elements of all chunks, each with its position in its chunk
Enumerated(chunks) ==
    Flatten([c \in 1..Len(chunks) |->
               [k \in 1..Len(chunks[c].data.v) |->
                  <<k, Iter(chunks[c].data)[k]>>]])

\* one entry of b0_4b: slicing an int is a TypeError
ZoneEvent(idx, event) ==
    IF IsPyInt(event) THEN Raise("TypeError", "b0_4b_data_decoder")
    ELSE IF event = <<>> THEN Raise("TypeError", "decode_hex_timestamp")
    ELSE Return(<<idx,
                  PyDict(<<<<"datetime",
                             decode_hex_timestamp(PySlice(event, 0, 4))>>,
                           <<"code",
                             get_lookup_value(ZoneStatus,
                                b2i(PySlice(event, 4, 5), TRUE))>>>>)>>)

Events4b(entries) ==
    IF IsRaise(entries) THEN entries
    ELSE Return(B0DecodedData(PyDict(DictUpdate(<<>>, entries.ret))))

b0_4b_data_decoder(message) ==
    Events4b(Collect([k \in 1..Len(Enumerated(message.data)) |->
                        ZoneEvent(Enumerated(message.data)[k][1],
                                  Enumerated(message.data)[k][2])]))

\* returns None when message.data is empty
b0_51_data_decoder(message) ==
    IF message.data = <<>> THEN Return(PyNone)
    ELSE IF \E k \in 1..Len(message.data[1].data.v) :
               IsPyInt(Iter(message.data[1].data)[k])
    THEN Raise("AttributeError", "b0_51_data_decoder")
    ELSE Return(B0DecodedData([k \in 1..Len(message.data[1].data.v) |->
                                 HexSp(message.data[1].data.v[k])]))

Counts52(counts) ==
    IF IsRaise(counts) THEN counts
    ELSE Return(B0DecodedData(PyDict(
            <<<<"Unknown", counts.ret[1]>>, <<"Sensors", counts.ret[2]>>,
              <<"Keypads", counts.ret[3]>>, <<"Keyfobs", counts.ret[4]>>,
              <<"Sirens", counts.ret[5]>>, <<"PGMs", counts.ret[6]>>>>)))

b0_52_data_decoder(message) ==
    IF message.data = <<>> THEN Return(B0DecodedData("Invalid Data"))
    ELSE Catch(Counts52(Collect([k \in 1..6 |->
                  ElemInt(Iter(message.data[1].data), k - 1,
                          "b0_52_data_decoder")])),
               "IndexError", B0DecodedData("Invalid Data"))

\* chunk.data.decode: a list has no decode
b0_64_data_decoder(message) ==
    IF message.data = <<>> THEN Return(B0DecodedData("Invalid Data"))
    ELSE IF message.data[1].data.t = "list"
    THEN Raise("AttributeError", "b0_64_data_decoder")
    ELSE Return(B0DecodedData(PyText(AsciiIgnore(message.data[1].data.v))))

\* one entry of b0_75
LogEntry(event) ==
    IF IsPyInt(event) THEN Raise("TypeError", "b0_75_data_decoder")
    ELSE IF event = <<>> THEN Raise("TypeError", "decode_hex_timestamp")
    ELSE Return([dt |-> decode_hex_timestamp(PySlice(event, 0, 4)),
                 rest |-> HexSp(PyFrom(event, 4))])

Events75(entries) ==
    IF IsRaise(entries) THEN entries ELSE Return(B0DecodedData(entries.ret))

b0_75_data_decoder(message) ==
    Events75(Collect([k \in 1..Len(Enumerated(message.data)) |->
                        LogEntry(Enumerated(message.data)[k][2])]))

\* one zone of b0_77: the brightness; a zone whose byte is ff is skipped
ZoneLux(bbrightness) ==
    IF IsPyInt(bbrightness) THEN Raise("TypeError", "b2i")
    ELSE Return([skip |-> bbrightness = <<255>>,
                 v |-> get_lookup_value(ZoneBrightness,
                                        b2i(bbrightness, TRUE))])

b0_77_data_decoder(message) ==
    IF message.data = <<>> THEN Return(B0DecodedData("Invalid Data"))
    ELSE ZoneData(message.data[1],
                  Collect([k \in 1..Len(message.data[1].data.v) |->
                             ZoneLux(Iter(message.data[1].data)[k])]))

\* getattr(self, f"b0_{message.command}_data_decoder")(message), or the
\* generic decoder when the method does not exist
DecodeData(message) ==
    IF message.command \notin SpecificDecoders
    THEN b0_gen_data_decoder(message)
    ELSE IF message.command = "0f" THEN b0_0f_data_decoder(message)
    ELSE IF message.command = "22" THEN b0_22_data_decoder(message)
    ELSE IF message.command = "24" THEN b0_24_data_decoder(message)
    ELSE IF message.command = "2a" THEN b0_2a_data_decoder(message)
    ELSE IF message.command = "35" THEN b0_35_data_decoder(message)
    ELSE IF message.command = "36" THEN b0_36_data_decoder(message)
    ELSE IF message.command = "3d" THEN b0_3d_data_decoder(message)
    ELSE IF message.command = "42" THEN b0_42_data_decoder(message)
    ELSE IF message.command = "4b" THEN b0_4b_data_decoder(message)
    ELSE IF message.command = "51" THEN b0_51_data_decoder(message)
    ELSE IF message.command = "52" THEN b0_52_data_decoder(message)
    ELSE IF message.command = "64" THEN b0_64_data_decoder(message)
    ELSE IF message.command = "75" THEN b0_75_data_decoder(message)
    ELSE b0_77_data_decoder(message)

(***************************************************************************)
(* B0MessageDecoder.decode_b0_message                                      *)
(***************************************************************************)
B0Request(type, command, cmd_name, length, data, checksum, verified) ==
    [cls |-> "B0Request", type |-> type, command |-> command,
     cmd_name |-> cmd_name, length |-> length, data |-> data,
     checksum |-> checksum, verified |-> verified]

B0Response(type, command, cmd_name, params, length, page, data, checksum, verified) ==
    [cls |-> "B0Response", type |-> type, command |-> command,
     cmd_name |-> cmd_name, params |-> params, page |-> page,
     length |-> length, data |-> data, checksum |-> checksum,
     verified |-> verified]

\* the data field of the B0Request
RequestData(message) ==
    IF message.data.t = "B0DataChunk" THEN Return(message.data.v)
    ELSE IF message.has_params
    THEN IF chunk_bytearray_raises(message.param_size)
         THEN Raise("ValueError", "chunk_bytearray")
         ELSE LET c == chunk_bytearray(message.data.v, message.param_size)
              IN  Return([i \in 1..Len(c) |-> HexSp(c[i])])
    ELSE Return(HexSp(message.data.v))

\* ADD / REQUEST / REMOVE
DecodeRequest(pgs, message, verified) ==
    LET data == RequestData(message)
    IN  [pages |-> pgs, held |-> pgs, message |-> message, stored |-> PyNone,
         result |->
            IF IsRaise(data) THEN data
            ELSE B0Request(get_lookup_value(MessageType, message.message_type),
                           message.command,
                           get_lookup_value(B0Command, message.command),
                           message.data_length, data.ret, message.checksum,
                           verified)]

\* PAGED_RESPONSE
DecodePaged(pgs, message, verified) ==
    LET last_page == get_highest_page_for_command(pgs, message.command)
        raised == message.page = 255 /\ IsRaise(last_page)
        page_no == IF message.page = 255 THEN last_page.ret + 1
                   ELSE message.page
    IN  IF raised
        THEN [pages |-> pgs, held |-> pgs, message |-> message,
              stored |-> PyNone, result |-> last_page]
        ELSE [pages |-> add_page(pgs, message.command, page_no, message),
              held |-> pgs, message |-> message,
              stored |-> PageId(message.command, page_no),
              result |->
                 B0Response(
                    get_lookup_value(MessageType, message.message_type),
                    message.command,
                    get_lookup_value(B0Command, message.command),
                    message.params, message.length_all_data, message.page,
                    message.data, message.checksum, verified)]

\* the stored pages after a rebuild: their chunk objects keep what the
\* rebuild did to them
PagesAfterRaise(pgs, command, msgs) ==
    LET pos == CommandPages(pgs, command)
    IN  [i \in 1..Len(pgs) |->
           IF \E k \in 1..Len(pos) : pos[k] = i
           THEN [pgs[i] EXCEPT !.message.data =
                    msgs[CHOOSE k \in 1..Len(pos) : pos[k] = i]]
           ELSE pgs[i]]

\* RESPONSE / UNKNOWN
DecodeFinal(pgs, message0, verified) ==
    LET active == has_active_paged_response(pgs, message0.command)
        rebuilt == create_message_from_paged_messages(
                      message0, get_pages(pgs, message0.command))
        raised == active /\ rebuilt.exc # PyNone
        message == IF active /\ ~raised
                   THEN [message0 EXCEPT !.data = rebuilt.chunks]
                   ELSE message0
        decoded_data == DecodeData(message)
        held == IF active
                THEN PagesAfterRaise(pgs, message0.command, rebuilt.msgs)
                ELSE pgs
    IN  IF raised
        THEN [pages |-> held, held |-> held,
              message |-> PyNone, stored |-> PyNone, result |-> rebuilt.exc]
        ELSE [pages |-> IF active THEN reset ELSE pgs, held |-> held,
              message |-> message, stored |-> PyNone,
              result |->
                 IF IsRaise(decoded_data) THEN decoded_data
                 ELSE B0Response(
                        get_lookup_value(MessageType, message.message_type),
                        message.command,
                        get_lookup_value(B0Command, message.command),
                        message.params, message.length_all_data,
                        message.page, decoded_data.ret, message.checksum,
                        verified)]

\* the branch on the message type; validate_b0_message(None) raises
DecodeStructured(pgs, message, verified) ==
    IF message = PyNone
    THEN [pages |-> pgs, held |-> pgs, message |-> PyNone, stored |-> PyNone,
          result |-> Raise("AttributeError", "validate_b0_message")]
    ELSE IF message.message_type \in {MessageType_ADD, MessageType_REQUEST,
                                      MessageType_REMOVE}
    THEN DecodeRequest(pgs, message, verified)
    ELSE IF message.message_type = MessageType_PAGED_RESPONSE
    THEN DecodePaged(pgs, message, verified)
    ELSE DecodeFinal(pgs, message, verified)

\* verified = self.validate_b0_message(message)
DecodeValidated(pgs, message) ==
    DecodeStructured(pgs, message, validate_b0_message(message))

\* pages: self.paged_message_manager.pages after the call; message: the
\* structured message the payload is decoded from (None when the call did
\* not get that far); stored: the key under which add_page stored the
\* message (None when it stored nothing); result: the value returned or the
\* exception raised
decode_b0_message(pgs, msg) ==
    DecodeValidated(pgs, decode_b0_message_structure(msg))

(***************************************************************************)
(* decoders/standard_message.py                                            *)
(***************************************************************************)
\* StandardCommand with ACK under another value
StandardCommand_ack_moved ==
    {<<"03", "ACK">>, <<"06", "HELLO">>, <<"08", "ACCESS_DENIED">>,
     <<"09", "EPROM_RW_MODE">>, <<"0f", "EXIT_RW_MODE">>,
     <<"a1", "ARM_ALARM">>, <<"a2", "REQ_STATUS">>,
     <<"a5", "STATUS_UPDATE">>, <<"a6", "ZONE_TYPE">>,
     <<"ab", "SET_DATETIME">>, <<"3c", "EPROM_INFO">>,
     <<"3d", "WRITE_CONFIG">>, <<"3e", "READ_CONFIG">>,
     <<"3f", "CONFIG_VALUE">>}

\* StandardCommand: <<value, name>> of every member
StandardCommand ==
    {<<"02", "ACK">>, <<"06", "HELLO">>, <<"08", "ACCESS_DENIED">>,
     <<"09", "EPROM_RW_MODE">>, <<"0f", "EXIT_RW_MODE">>,
     <<"a1", "ARM_ALARM">>, <<"a2", "REQ_STATUS">>,
     <<"a5", "STATUS_UPDATE">>, <<"a6", "ZONE_TYPE">>,
     <<"ab", "SET_DATETIME">>, <<"3c", "EPROM_INFO">>,
     <<"3d", "WRITE_CONFIG">>, <<"3e", "READ_CONFIG">>,
     <<"3f", "CONFIG_VALUE">>}

\* decode_standard_message with the checksum taken from the start marker on
decode_standard_message_from_start_marker(msg) ==
    LET command == Hex(PySlice(msg, 1, 2))
        checksum == Hex(PySlice(msg, -2, -1))
    IN  [cls |-> "STDMessage",
         command |-> command,
         command_str |-> get_lookup_value(StandardCommand, command),
         data |-> HexSp(PySlice(msg, 2, -2)),
         checksum |-> checksum,
         verified |->
            checksum = Hex(calculate_message_checksum(PySlice(msg, 0, -2)))]

\* no handle_std_{command}_message method exists: data is rendered as hex
decode_standard_message(msg) ==
    LET command == Hex(PySlice(msg, 1, 2))
        checksum == Hex(PySlice(msg, -2, -1))
    IN  [cls |-> "STDMessage",
         command |-> command,
         command_str |-> get_lookup_value(StandardCommand, command),
         data |-> HexSp(PySlice(msg, 2, -2)),
         checksum |-> checksum,
         verified |->
            checksum = Hex(calculate_message_checksum(PySlice(msg, 1, -2)))]

(***************************************************************************)
(* Frames the connections deliver                                          *)
(***************************************************************************)
\* 0d b0 <body> 43 <checksum> 0a
Frame(body) ==
    LET m == <<176>> \o body \o <<67>>
    IN  <<13>> \o m \o calculate_message_checksum(m) \o <<10>>

\* the same frame with a checksum byte that does not match
BadChecksum(frame) ==
    [frame EXCEPT ![Len(frame) - 1] = (@ + 1) % 256]

\* the data region of a default-layout response: every sub-chunk is
\* <first byte> <data type> <index> <length> <payload>; the first byte of
\* the first sub-chunk is the page
RECURSIVE Region(_, _)
Region(first, chunks) ==
    IF chunks = <<>> THEN <<>>
    ELSE LET c == Head(chunks)
         IN  <<first, c[1], c[2], Len(c[3])>> \o c[3]
             \o Region(255, Tail(chunks))

\* a default-layout response frame; chunks: <<data type, index, payload>>
ResponseFrame(type, cmd, page, chunks) ==
    LET region == Region(page, chunks)
    IN  Frame(<<type, cmd, Len(region) + 1>> \o region \o <<1>>)

\* a response frame whose byte 6 is zero
ZeroTypeFrame(type, cmd, page, payload) ==
    Frame(<<type, cmd, Len(payload) + 8, page, 0, 255, Len(payload) + 3,
            0, 255, Len(payload)>> \o payload \o <<1>>)

\* a request frame with parameters
RequestFrame(cmd, param_size, data_type, payload) ==
    Frame(<<MessageType_REQUEST, cmd, Len(payload) + 6, param_size, 255,
            data_type, 255, Len(payload)>> \o payload \o <<1>>)

\* command bytes: 2a has a specific decoder, 1f has none
Cmd2a == 42

Cmd1f == 31

\* 10-byte event log entries: timestamp (4), device type, zone, 0, event
\* type, 0, sort id
EventA == <<1, 0, 0, 0, 3, 0, 0, 1, 0, 1>>

EventB == <<2, 0, 0, 0, 3, 1, 0, 2, 0, 2>>

EventC == <<3, 0, 0, 0, 12, 0, 0, 6, 0, 3>>

EventD == <<4, 0, 0, 0, 9, 0, 0, 27, 0, 4>>

Frames ==
    { ResponseFrame(MessageType_PAGED_RESPONSE, Cmd2a, 1,
                    <<<<80, 255, EventA>>>>),
      ResponseFrame(MessageType_PAGED_RESPONSE, Cmd2a, 2,
                    <<<<80, 255, EventB>>>>),
      ResponseFrame(MessageType_PAGED_RESPONSE, Cmd2a, 3,
                    <<<<80, 255, EventC>>>>),
      ResponseFrame(MessageType_RESPONSE, Cmd2a, FINAL_PAGE,
                    <<<<80, 255, EventD>>>>),
      ResponseFrame(MessageType_PAGED_RESPONSE, Cmd1f, FINAL_PAGE,
                    <<<<8, 3, <<1, 2>>>>>>),
      ResponseFrame(MessageType_PAGED_RESPONSE, Cmd1f, 1,
                    <<<<8, 3, <<3>>>>, <<16, 4, <<4, 5>>>>, <<8, 3, <<6>>>>>>),
      ResponseFrame(MessageType_PAGED_RESPONSE, Cmd1f, 2,
                    <<<<16, 3, <<7, 8>>>>>>),
      BadChecksum(ResponseFrame(MessageType_UNKNOWN, Cmd1f, FINAL_PAGE,
                    <<<<8, 4, <<9>>>>, <<8, 3, <<10>>>>>>)),
      ZeroTypeFrame(MessageType_PAGED_RESPONSE, Cmd1f, 1, <<74, 83>>),
      ZeroTypeFrame(MessageType_RESPONSE, Cmd1f, FINAL_PAGE, <<75>>),
      RequestFrame(Cmd2a, 2, 8, <<138, 0>>),
      <<13, 2, 2, 2, 67, 249, 10>> }

\* client ids of the connections (ServerConnection.get_client_id)
Clients == {"P1"}

(***************************************************************************)
(* MessageCoordinator: one b0_decoder and one std_decoder for every        *)
(* connection.                                                             *)
(*   pages        self.b0_decoder.paged_message_manager.pages              *)
(*   page_client  for every stored page, the client whose frame it is and  *)
(*                the number of the call that stored it (kept for the      *)
(*                properties, the code does not record them)               *)
(*   last         the last call of received_message: its arguments         *)
(*                (client_id, data), the accumulator and its clients       *)
(*                before the call (before, before_client), the pages       *)
(*                stored before the call with their chunk objects as the   *)
(*                call left them (held; the Responses returned for those   *)
(*                pages refer to these objects), the structured            *)
(*                message the payload was decoded from (message), the key  *)
(*                add_page stored under (stored) and the value returned or *)
(*                the exception raised by the decoder (result)             *)
(*   calls        number of calls of received_message so far               *)
(***************************************************************************)
NoCall == [client_id |-> "", data |-> <<>>, before |-> <<>>, held |-> <<>>,
           before_client |-> <<>>, message |-> PyNone, stored |-> PyNone,
           result |-> PyNone]

Init ==
    /\ pages = <<>>
    /\ page_client = <<>>
    /\ last = NoCall
    /\ calls = 0

PageIds(pgs) == {pgs[i].page_id : i \in 1..Len(pgs)}

\* an exception of the decoder is caught and logged
received_message(client_id, data) ==
    /\ calls < MaxCalls
    /\ LET r == IF Hex(PySlice(data, 1, 2)) = "b0"
                THEN decode_b0_message(pages, data)
                ELSE [pages |-> pages, held |-> pages, message |-> PyNone,
                      stored |-> PyNone,
                      result |-> decode_standard_message(data)]
       IN  /\ pages' = r.pages
           /\ page_client' =
                 [pid \in PageIds(r.pages) |->
                    IF pid = r.stored
                    THEN [client_id |-> client_id, call |-> calls + 1]
                    ELSE page_client[pid]]
           /\ last' = [client_id |-> client_id, data |-> data,
                       before |-> pages, before_client |-> page_client,
                       held |-> r.held,
                       message |-> r.message, stored |-> r.stored,
                       result |-> r.result]
    /\ calls' = calls + 1

\* one connection
Next == \E client_id \in Clients, data \in Frames :
            received_message(client_id, data)

Spec == Init /\ [][Next]_vars

\* two connections whose frames reach the same coordinator
ConnClients == {"P1", "P2"}

ConnFrames ==
    { ResponseFrame(MessageType_PAGED_RESPONSE, Cmd2a, 1,
                    <<<<80, 255, EventA>>>>),
      ResponseFrame(MessageType_PAGED_RESPONSE, Cmd2a, 2,
                    <<<<80, 255, EventB>>>>),
      ResponseFrame(MessageType_RESPONSE, Cmd2a, FINAL_PAGE,
                    <<<<80, 255, EventD>>>>),
      ResponseFrame(MessageType_PAGED_RESPONSE, Cmd1f, 1,
                    <<<<8, 3, <<3>>>>>>) }

NextConn == \E client_id \in ConnClients, data \in ConnFrames :
                received_message(client_id, data)

SpecConn == Init /\ [][NextConn]_vars

(***************************************************************************)
(* One frame decoded by a fresh coordinator: last.data holds the frame     *)
(* the connection is about to deliver, the only call decodes it.           *)
(***************************************************************************)
\* data-type and index bytes of the sub-chunks of the fallback frames:
\* members of DataTypes / IndexName and values neither enum has
FallbackTypes == {1, 2, 8, 16, 120, 255}

FallbackIndices == {0, 3, 20, 21, 255}

\* final frames of command 1f (no specific decoder), one or two sub-chunks
FallbackFrames ==
    { ResponseFrame(MessageType_RESPONSE, Cmd1f, FINAL_PAGE,
                    <<<<t, i, <<5, 6>>>>>>) :
        t \in FallbackTypes, i \in FallbackIndices }
    \cup
    { ResponseFrame(type, Cmd1f, FINAL_PAGE,
                    <<<<8, 3, <<7>>>>, <<t, i, <<8, 9>>>>>>) :
        type \in {MessageType_RESPONSE, MessageType_UNKNOWN},
        t \in {16, 2}, i \in {4, 21} }

\* a well-formed frame cut after its first n bytes
Prefix(frame, n) == SubSeq(frame, 1, n)

\* well-formed frames of every layout, cut short
WholeFrames ==
    { ResponseFrame(MessageType_RESPONSE, Cmd1f, FINAL_PAGE,
                    <<<<8, 3, <<5, 6>>>>>>),
      ZeroTypeFrame(MessageType_RESPONSE, Cmd1f, FINAL_PAGE, <<75>>),
      RequestFrame(Cmd2a, 2, 8, <<138, 0>>) }

TruncatedFrames ==
    UNION { { Prefix(frame, n) : n \in 2..(Len(frame) - 1) } :
            frame \in WholeFrames }
    \cup
    \* the declared length of the sub-chunk (5) is above the bytes it has
    { Frame(<<MessageType_RESPONSE, Cmd1f, 7, 255, 8, 3, 5, 1, 2, 1>>) }

\* the command bytes of the specific decoders
SpecificCommands == {15, 34, 36, 42, 53, 54, 61, 66, 75, 81, 82, 100, 117, 119}

\* a response frame of command 0f: the data type is byte 6, data from byte 8
Frame0f(type, data_type, payload) ==
    Frame(<<type, 15, Len(payload) + 4, FINAL_PAGE, data_type, 255>>
          \o payload \o <<1>>)

\* a response frame of command 35: params are bytes 9-10, the data type is
\* byte 11, data from byte 12
Frame35(type, params, data_type, payload) ==
    Frame(<<type, 53, Len(payload) + 8, FINAL_PAGE, 8, 255, Len(payload) + 3>>
          \o params \o <<data_type>> \o payload \o <<1>>)

\* a response frame of command 42: params are bytes 9-10, the entry size in
\* bits bytes 13-14, the data type byte 17, data from byte 23
Frame42(type, params, data_type, size_bits, payload) ==
    Frame(<<type, 66, Len(payload) + 19, FINAL_PAGE, 8, 255,
            Len(payload) + 14>>
          \o params \o <<0, 0, size_bits, 0, 0, 0, data_type, 0, 0, 0, 1, 0>>
          \o payload \o <<1>>)

\* a date of command 24: 7 unknown bytes, then ss mn hh dd mm yy yy;
\* one partition follows the partition count
Status24(ss, mn, hh, dd, mm, yy, state) ==
    <<6, 0, 0, 0, 0, 0, 0, 0, ss, mn, hh, dd, mm, yy, 20, 6, 1, state, 131,
      0, 0>>

\* final frames for the specific decoders: no chunk, the zero-type layout,
\* payloads with too few elements, payloads of the documented form, an
\* impossible date and codes the tables do not have
SemanticFrames ==
    { Frame(<<MessageType_RESPONSE, cmd, 1, 1>>) : cmd \in SpecificCommands }
    \cup
    { ZeroTypeFrame(MessageType_RESPONSE, cmd, FINAL_PAGE, payload) :
        cmd \in SpecificCommands, payload \in {<<>>, <<74, 83, 200>>} }
    \cup
    { ResponseFrame(MessageType_RESPONSE, cmd, FINAL_PAGE,
                    <<<<8, 3, payload>>>>) :
        cmd \in SpecificCommands \ {15, 53, 66},
        payload \in {<<>>, <<1, 255>>, <<25, 8, 0, 2, 1, 1>>} }
    \cup
    { ResponseFrame(MessageType_RESPONSE, 36, FINAL_PAGE,
                    <<<<8, 255, status>>>>) :
        status \in { Status24(19, 47, 18, 28, 6, 24, 0),
                     Status24(19, 47, 18, 30, 2, 24, 0),
                     Status24(19, 47, 18, 28, 13, 24, 0),
                     Status24(60, 47, 18, 28, 6, 24, 0),
                     Status24(19, 47, 18, 28, 6, 24, 32),
                     SubSeq(Status24(19, 47, 18, 28, 6, 24, 0), 1, 18),
                     Status24(19, 47, 18, 28, 6, 24, 5) \o <<3, 0, 0>> } }
    \cup
    { ResponseFrame(MessageType_RESPONSE, cmd, FINAL_PAGE,
                    <<<<80, 255, events>>>>) :
        cmd \in {42, 54, 117},
        events \in { EventA \o EventD,
                     <<5, 0, 0, 0, 3, 0, 0, 177, 0, 1>>,
                     <<5, 0, 0, 0>> } }
    \cup
    { ResponseFrame(MessageType_RESPONSE, 75, FINAL_PAGE, chunks) :
        chunks \in { <<<<40, 3, <<1, 0, 0, 0, 2, 2, 0, 0, 0, 9>>>>>>,
                     <<<<40, 3, <<1, 0, 0, 0, 2>>>>, <<40, 3, <<3, 0, 0>>>>>> } }
    \cup
    { Frame0f(MessageType_RESPONSE, data_type, payload) :
        data_type \in {8, 16}, payload \in {<<>>, <<1, 2, 3>>} }

\* n two-byte elements, the k-th holding 256 + k in little-endian order
Words(n) == [k \in 1..(2 * n) |-> IF k % 2 = 1 THEN (k + 1) \div 2 ELSE 1]

\* capability maps of command 22 and of command 35 selector 07 00, within
\* and beyond the tables of category names
CapabilityFrames ==
    { ResponseFrame(MessageType_RESPONSE, 34, FINAL_PAGE,
                    <<<<16, 255, Words(n)>>>>) : n \in {3, 21, 22, 23} }
    \cup
    { Frame35(MessageType_RESPONSE, <<7, 0>>, 16, Words(n)) :
        n \in {3, 20, 21} }

\* the declared data types: the members of DataType and two other values
SettingsTypes == {0, 1, 2, 3, 4, 5, 6, 8, 10, 255}

\* payloads: none, one byte, zero, two bytes, text, text with a NUL, with a
\* byte that is not ASCII, with the 0xFF filler
SettingsPayloads ==
    {<<>>, <<5>>, <<0>>, <<1, 2>>, <<0, 0>>, <<7, 1, 0, 0>>,
     <<72, 105, 32, 32>>, <<72, 105, 0, 32, 79, 75>>, <<72, 200>>,
     <<49, 255, 255>>}

\* settings responses of the commands 35 and 42 whose 2-byte sub-parameter
\* (48 01, 0d 00) has no decoder of its own
SettingsFrames ==
    { Frame35(MessageType_RESPONSE, <<72, 1>>, data_type, payload) :
        data_type \in SettingsTypes, payload \in SettingsPayloads }
    \cup
    { Frame42(MessageType_RESPONSE, <<13, 0>>, data_type, size_bits, payload) :
        data_type \in SettingsTypes, size_bits \in {8, 16},
        payload \in SettingsPayloads }

\* b, its checksum and the end marker
Sealed(b) == b \o calculate_message_checksum(b) \o <<10>>

\* frame bodies from the start marker to the end-of-data marker: B0
\* responses and requests, type bytes without a structure, bodies whose
\* bytes after the start marker add up to a multiple of 0xFF, standard
\* messages
SealedBodies ==
    { <<13, 176, type, Cmd1f, 7, 255, 8, 3, 2, 5, 6, 1, 67>> :
        type \in {0, 1, 2, 3, 5, 6, 255} }
    \cup
    { <<13, 176, MessageType_RESPONSE, Cmd1f, 7, 255, 8, 3, 2, b, 212 - b,
        1, 67>> : b \in {0, 100, 212} }
    \cup
    { <<13, 2, 67>>, <<13, 2, 2, 2, 67>>, <<13, 171, 3, 0, 30, 67>> }

\* the frame of a body under the rule of the code (the start marker left
\* out of the sum) and under the rule with the start marker in the sum;
\* the same with a checksum byte that matches neither, with each marker
\* changed
ValidationFrames ==
    UNION { { Sealed(b),
              <<13>> \o Sealed(Tail(b)),
              BadChecksum(<<13>> \o Sealed(Tail(b))),
              <<12>> \o Sealed(Tail(b)),
              <<13>> \o Tail(b) \o calculate_message_checksum(Tail(b))
                     \o <<11>>,
              <<13>> \o Sealed(SubSeq(b, 2, Len(b) - 1) \o <<68>>) } :
            b \in SealedBodies }
    \cup { <<13, 2, 2, 2, 67, 249, 10>> }

\* requests with parameters for the values of the param_size byte and
\* payloads that are and are not a multiple of it, a request without
\* parameters, an ADD and a REMOVE frame
RequestFrames ==
    { RequestFrame(Cmd2a, param_size, 8, payload) :
        param_size \in {0, 1, 2, 3, 255},
        payload \in {<<>>, <<138, 0>>, <<1, 2, 3>>, <<1, 2, 3, 4>>} }
    \cup
    { Frame(<<MessageType_REQUEST, Cmd2a, 1, 1>>),
      Frame(<<MessageType_REQUEST, Cmd2a, 0>>),
      Frame(<<MessageType_ADD, 37, 16, 170, 170, 1, 255, 8, 255, 9,
              49, 52, 48, 53, 48, 49, 57, 7, 0>>),
      Frame(<<MessageType_ADD, 25, 15, 170, 170, 0, 255, 1, 3, 8,
              8, 0, 0, 0, 0, 0, 0, 0>>),
      Frame(<<MessageType_REMOVE, 37, 9, 170, 170, 1, 255, 8, 3, 2, 8, 0>>) }

\* sub-chunks <<data type, index, payload>> of the default layout: without
\* payload, of one-byte and of two-byte elements (a whole number of them and
\* not), with a data type below 8
SubChunkSet ==
    { <<8, 3, <<>>>>, <<8, 3, <<7>>>>, <<16, 4, <<1, 2, 3, 4>>>>,
      <<16, 4, <<1, 2, 3>>>>,
      <<4, 5, <<1, 2, 3>>>> }

MaxSubChunks == 3

\* the sequences of at most n of these sub-chunks
RECURSIVE SubChunkSeqs(_)
SubChunkSeqs(n) ==
    IF n = 0 THEN {<<>>}
    ELSE SubChunkSeqs(n - 1)
         \cup { Append(cs, c) : cs \in {t \in SubChunkSeqs(n - 1) :
                                          Len(t) = n - 1},
                               c \in SubChunkSet }

\* well-formed default-layout response frames of a command without a
\* specific decoder
DefaultFrames ==
    { ResponseFrame(MessageType_RESPONSE, Cmd1f, FINAL_PAGE, chunks) :
        chunks \in SubChunkSeqs(MaxSubChunks) }

\* responses of command 35 for the assigned zone types (31 00) and the
\* assigned zone names (32 00), one byte per zone
ZoneListFrames ==
    { Frame35(MessageType_RESPONSE, params, 1, payload) :
        params \in {<<49, 0>>, <<50, 0>>},
        payload \in {<<>>, <<5>>, <<0, 1, 2>>, <<3, 200, 7, 1>>} }

Zeros(n) == [k \in 1..n |-> 0]

\* default-layout response frames with the highest declared lengths, cut
\* short: sub-chunks whose length byte is zero, then length bytes past the
\* end of the frame, or a first sub-chunk whose length byte points past the
\* frame
LongFrames ==
    { Frame(<<MessageType_RESPONSE, Cmd1f, length, FINAL_PAGE, 8>>
            \o Zeros(n)) :
        length \in {252, 253, 254, 255}, n \in {0, 2, 3, 38} }
    \cup
    { Frame(<<MessageType_RESPONSE, Cmd1f, length, FINAL_PAGE, 8, 3, first>>
            \o Zeros(n)) :
        length \in {254, 255}, first \in {1, 200, 255}, n \in {2, 40} }

InputFrames ==
    FallbackFrames \cup TruncatedFrames \cup SemanticFrames
    \cup CapabilityFrames \cup SettingsFrames \cup ValidationFrames
    \cup RequestFrames \cup DefaultFrames \cup ZoneListFrames
    \cup LongFrames

InitInput ==
    /\ pages = <<>>
    /\ page_client = <<>>
    /\ last \in {[NoCall EXCEPT !.data = data] : data \in InputFrames}
    /\ calls = 0

\* the frame is delivered once
deliver_frame == calls = 0 /\ received_message("P1", last.data)

NextInput == deliver_frame

SpecInput == InitInput /\ [][NextInput]_vars

(***************************************************************************)
(* The checksum of a byte sequence: the sequence is drawn at the start, and *)
(* one step applies calculate_message_checksum to it.                      *)
(***************************************************************************)
MaxBytes == 3

\* byte values at both ends and in the middle of the range
ChecksumBytes == {0, 1, 127, 128, 254, 255}

\* the sequences of at most n of these bytes
RECURSIVE ByteSeqs(_)
ByteSeqs(n) ==
    IF n = 0 THEN {<<>>}
    ELSE ByteSeqs(n - 1)
         \cup { Append(bs, b) : bs \in {t \in ByteSeqs(n - 1) : Len(t) = n - 1},
                                b \in ChecksumBytes }

InitChecksum ==
    /\ pages = <<>>
    /\ page_client = <<>>
    /\ last \in {[NoCall EXCEPT !.data = bs] : bs \in ByteSeqs(MaxBytes)}
    /\ calls = 0

checksum_bytes ==
    /\ calls = 0
    /\ calls' = 1
    /\ last' = [last EXCEPT !.result = calculate_message_checksum(last.data)]
    /\ UNCHANGED <<pages, page_client>>

NextChecksum == checksum_bytes

SpecChecksum == InitChecksum /\ [][NextChecksum]_vars

(***************************************************************************)
(* Vocabulary of the properties.  These definitions restate what the       *)
(* specification says; they do not use the operators of the accumulator.   *)
(***************************************************************************)
\* the structured form of the frame of the last call
LastS == decode_b0_message_structure(last.data)

IsB0Call == calls > 0 /\ Hex(PySlice(last.data, 1, 2)) = "b0"

PagedCall ==
    /\ IsB0Call
    /\ LastS # PyNone
    /\ LastS.message_type = MessageType_PAGED_RESPONSE

\* a final RESPONSE or UNKNOWN-type frame
FinalCall ==
    /\ IsB0Call
    /\ LastS # PyNone
    /\ LastS.shape = "response"
    /\ LastS.message_type # MessageType_PAGED_RESPONSE

Page1Stored(pgs, command) ==
    \E i \in 1..Len(pgs) : /\ pgs[i].page_id.command = command
                           /\ pgs[i].page_id.page_no = 1

\* the stored entries of a command, in the order they are stored
EntriesOf(pgs, command) ==
    SelectSeq(pgs, LAMBDA e : e.page_id.command = command)

\* highest page number stored for a command, 0 when there is none
HighestPage(pgs, command) ==
    LET nos == {0} \cup {pgs[i].page_id.page_no : i \in
                   {j \in 1..Len(pgs) : pgs[j].page_id.command = command}}
    IN  CHOOSE n \in nos : \A m \in nos : m <= n

\* a final frame arrived while page 1 of its command was stored
ActiveBefore == FinalCall /\ Page1Stored(last.before, LastS.command)

\* ... and the call produced a merged chunk list
Reassembled == ActiveBefore /\ last.message # PyNone

\* the chunks of a sequence of messages, in order
ChunksOf(msgs) == Flatten([m \in 1..Len(msgs) |-> msgs[m].data])

\* the elements of a chunk (the bytes of a bytearray count one by one)
ElemsOf(chunk) ==
    IF chunk.data.t = "list" THEN chunk.data.v
    ELSE [i \in 1..Len(chunk.data.v) |-> PyInt(chunk.data.v[i])]

HexOf(chunk) ==
    IF chunk.hex.t = "list" THEN chunk.hex.v ELSE Chars(chunk.hex.v)

Indices(chunks) == {chunks[k].index : k \in 1..Len(chunks)}

WithIndex(chunks, index) == SelectSeq(chunks, LAMBDA c : c.index = index)

\* concatenated elements / hex renderings / summed length per index
ElemsAt(chunks, index) ==
    LET cs == WithIndex(chunks, index)
    IN  Flatten([k \in 1..Len(cs) |-> ElemsOf(cs[k])])

HexAt(chunks, index) ==
    LET cs == WithIndex(chunks, index)
    IN  Flatten([k \in 1..Len(cs) |-> HexOf(cs[k])])

RECURSIVE SumSeq(_)
SumSeq(ns) == IF ns = <<>> THEN 0 ELSE Head(ns) + SumSeq(Tail(ns))

LengthAt(chunks, index) ==
    LET cs == WithIndex(chunks, index)
    IN  SumSeq([k \in 1..Len(cs) |-> cs[k].length])

\* same set of indices, per index the same elements and summed length
SameContent(a, b) ==
    /\ Indices(a) = Indices(b)
    /\ \A i \in Indices(a) : /\ ElemsAt(a, i) = ElemsAt(b, i)
                             /\ LengthAt(a, i) = LengthAt(b, i)

\* the frame a stored message was decoded from
FrameOf(message) == <<13>> \o message.message \o <<10>>

\* the chunks of a stored message as its frame carried them
AsReceived(message) == decode_b0_message_structure(FrameOf(message))

\* the stored pages of the final frame's command before the call, in the
\* order their frames arrived, followed by the final frame
ArrivedMsgs ==
    LET es == SortSeq(EntriesOf(last.before, LastS.command),
                      LAMBDA x, y : last.before_client[x.page_id].call
                                    < last.before_client[y.page_id].call)
    IN  Append([k \in 1..Len(es) |-> AsReceived(es[k].message)], LastS)

\* the same pages in ascending page number, followed by the final frame
PageOrderMsgs ==
    LET es == SortSeq(EntriesOf(last.before, LastS.command),
                      LAMBDA x, y : x.page_id.page_no < y.page_id.page_no)
    IN  Append([k \in 1..Len(es) |-> AsReceived(es[k].message)], LastS)

(***************************************************************************)
(* Properties of the paged message accumulator and of reassembly           *)
(***************************************************************************)
\* C1: in a sequence of PAGED_RESPONSE frames of one command that all carry
\* page byte 0xFF, every frame is decoded without an exception and stored
\* under the highest page number stored for the command plus one, after the
\* pages stored before, which stay as they are.
C1_QuirkPagesNumbered ==
    (/\ PagedCall
     /\ LastS.page = FINAL_PAGE
     /\ \A i \in 1..Len(last.before) :
           last.before[i].page_id.command = LastS.command
              => last.before[i].message.page = FINAL_PAGE) =>
        LET c == LastS.command
            no == HighestPage(last.before, c) + 1
        IN  /\ ~IsRaise(last.result)
            /\ last.stored = PageId(c, no)
            /\ no > 1 =>
                  EntriesOf(pages, c) =
                     Append(EntriesOf(last.before, c),
                            [page_id |-> PageId(c, no), message |-> LastS])

\* the frames of the stored pages of the final frame's command in arrival
\* order, followed by the final frame
ArrivedFrames ==
    LET es == SortSeq(EntriesOf(last.before, LastS.command),
                      LAMBDA x, y : last.before_client[x.page_id].call
                                    < last.before_client[y.page_id].call)
    IN  Append([k \in 1..Len(es) |-> FrameOf(es[k].message)], last.data)

ZeroLayout(frame) == frame[7] = 0

\* the content a response frame carries: the payload of the zero-type
\* layout, the sub-chunks after the page byte of the default layout
ContentOf(frame) ==
    IF ZeroLayout(frame) THEN PySlice(frame, 12, 12 + frame[12])
    ELSE PySlice(frame, 6, Len(frame) - 4)

\* every frame has the layout of the final frame, which is the zero-type or
\* the default layout
SameLayout(frames) ==
    /\ LastS.command \notin {"0f", "35", "42"}
    /\ \A k \in 1..Len(frames) : ZeroLayout(frames[k]) = ZeroLayout(last.data)

\* the content of the frames as one single final frame
JoinedFrame(frames) ==
    IF ZeroLayout(last.data)
    THEN ZeroTypeFrame(last.data[3], last.data[4], FINAL_PAGE,
                       Flatten([k \in 1..Len(frames) |-> ContentOf(frames[k])]))
    ELSE LET region == Flatten([k \in 1..Len(frames) |->
                                  <<FINAL_PAGE>> \o ContentOf(frames[k])])
         IN  Frame(<<last.data[3], last.data[4], Len(region) + 1>>
                   \o region \o <<1>>)

\* C2: the chunk list reassembled from pages 1..N and the final frame has
\* the same indices, per index the same elements and the same summed length
\* as the chunk list of one final frame that carries the content of all of
\* them.
C2_MergeLaw ==
    (ActiveBefore /\ SameLayout(ArrivedFrames)) =>
        /\ last.message # PyNone
        /\ SameContent(
              last.message.data,
              decode_b0_message(<<>>, JoinedFrame(ArrivedFrames)).message.data)

\* C3: a final frame that arrives while page 1 of its command is stored is
\* decoded from the merged chunks of the stored pages and the final frame,
\* the elements in arrival order; for command 2a the result is one event
\* list with the entries of all of them in that order.
C3_MergedInArrivalOrder ==
    ActiveBefore =>
        /\ last.message # PyNone
        /\ LET merged == last.message.data
               arrived == ChunksOf(ArrivedMsgs)
           IN  /\ Indices(merged) = Indices(arrived)
               /\ \A i \in Indices(merged) :
                     ElemsAt(merged, i) = ElemsAt(arrived, i)
               /\ LastS.command = "2a" =>
                     /\ ~IsRaise(last.result)
                     /\ LET es == ElemsAt(arrived, arrived[1].index)
                        IN  last.result.data =
                               B0DecodedData([k \in 1..Len(es) |->
                                                EventEntry(es[k])])

\* equality of two chunks (values of different Python types are unequal)
SameChunk(a, b) ==
    /\ a.cls = b.cls
    /\ a.data.t = b.data.t
    /\ a.hex.t = b.hex.t
    /\ a = b

\* the stored pages of the final frame's command hold the chunks their
\* frames carried
PagesIntact ==
    \A i \in 1..Len(last.before) :
        last.before[i].page_id.command = LastS.command
           => last.before[i].message = AsReceived(last.before[i].message)

\* C4: a chunk list reassembled from pages stored as they arrived holds, per
\* index, the elements and the hex renderings of the pages in ascending page
\* number and the sum of their lengths; a chunk whose index occurs once is
\* passed through unchanged.
C4_FoldInPageOrder ==
    (Reassembled /\ PagesIntact) =>
        LET merged == last.message.data
            ordered == ChunksOf(PageOrderMsgs)
        IN  /\ Indices(merged) = Indices(ordered)
            /\ \A i \in Indices(merged) :
                  /\ ElemsAt(merged, i) = ElemsAt(ordered, i)
                  /\ HexAt(merged, i) = HexAt(ordered, i)
                  /\ LengthAt(merged, i) = LengthAt(ordered, i)
            /\ \A k \in 1..Len(ordered) :
                  Len(WithIndex(ordered, ordered[k].index)) = 1 =>
                     \E j \in 1..Len(merged) : SameChunk(merged[j], ordered[k])

\* the commands that have a page numbered 1 stored
InFlight(pgs) ==
    {pgs[i].page_id.command :
        i \in {j \in 1..Len(pgs) : pgs[j].page_id.page_no = 1}}

\* the last call stored its frame as page 1
StoredPageOne ==
    /\ calls > 0
    /\ last.stored # PyNone
    /\ last.stored.page_no = 1

\* C5: right after a frame is stored as page 1 the accumulator holds that
\* one page and nothing else, and in every state at most one command has a
\* page numbered 1 stored.
C5_PageOneStartsFresh ==
    /\ StoredPageOne =>
          pages = <<[page_id |-> last.stored, message |-> LastS]>>
    /\ Cardinality(InFlight(pages)) <= 1

\* a frame was stored as page 1 while pages of another command were stored
C5_Witness ==
    /\ StoredPageOne
    /\ \E i \in 1..Len(last.before) :
          last.before[i].page_id.command # last.stored.command

\* C6: after a final frame is decoded while page 1 of its command is
\* stored, the accumulator holds no page of that command.
C6_ClearedAfterReassembly ==
    ActiveBefore => EntriesOf(pages, LastS.command) = <<>>

\* C7: a reassembled chunk list holds at most one chunk per index.
C7_OneChunkPerIndex ==
    Reassembled =>
        \A i, j \in 1..Len(last.message.data) :
            last.message.data[i].index = last.message.data[j].index => i = j

\* a reassembly over a stored page that carries two chunks of one index and
\* a final frame that carries that index again with another data type
C7_Witness ==
    /\ Reassembled
    /\ \E p \in 1..Len(last.before) :
          LET cs == AsReceived(last.before[p].message).data
          IN  /\ last.before[p].page_id.command = LastS.command
              /\ \E i, j \in 1..Len(cs) :
                    i # j /\ cs[i].index = cs[j].index
              /\ \E i \in 1..Len(cs), k \in 1..Len(LastS.data) :
                    /\ cs[i].index = LastS.data[k].index
                    /\ cs[i].data_type # LastS.data[k].data_type

\* C8: every PAGED_RESPONSE frame gives a B0Response whose data is the
\* chunk list of the frame as the structure decoder built it, and the frame
\* is stored under its command and its page number (for page byte 0xFF:
\* the highest page number stored for the command plus one).
C8_PagedResponseIsRaw ==
    PagedCall =>
        LET c == LastS.command
            no == IF LastS.page = FINAL_PAGE
                  THEN HighestPage(last.before, c) + 1
                  ELSE LastS.page
        IN  /\ ~IsRaise(last.result)
            /\ last.result.cls = "B0Response"
            /\ last.result.data = LastS.data
            /\ \E i \in 1..Len(pages) :
                  pages[i] = [page_id |-> PageId(c, no), message |-> LastS]

\* C9: a final frame that arrives while no page numbered 1 of its command
\* is stored is decoded from its own chunks, and the accumulator stays as
\* it is.
C9_LoneFinalFrame ==
    (FinalCall /\ ~Page1Stored(last.before, LastS.command)) =>
        /\ pages = last.before
        /\ last.message = LastS

\* a final frame arrived while only pages numbered above 1 of its command
\* were stored
C9_Witness ==
    /\ FinalCall
    /\ ~Page1Stored(last.before, LastS.command)
    /\ EntriesOf(last.before, LastS.command) # <<>>
    /\ ~IsRaise(last.result)

\* C10: a reassembly uses pages of the client of the final frame only, and a
\* frame stored as page 1 leaves the stored pages of other clients in the
\* accumulator.
C10_ConnectionsApart ==
    /\ ActiveBefore =>
          \A i \in 1..Len(last.before) :
              last.before[i].page_id.command = LastS.command =>
                 last.before_client[last.before[i].page_id].client_id
                    = last.client_id
    /\ StoredPageOne =>
          \A i \in 1..Len(last.before) :
              last.before_client[last.before[i].page_id].client_id
                 # last.client_id
              => \E j \in 1..Len(pages) : pages[j] = last.before[i]

(***************************************************************************)
(* Properties of the semantic decoders and of the checksum                 *)
(***************************************************************************)
\* a final frame decoded from its own chunks, of a command that has no
\* b0_{command}_data_decoder method
FallbackCall ==
    /\ FinalCall
    /\ ~ActiveBefore
    /\ LastS.command \notin SpecificDecoders

\* C11: every final response frame of a command without a specific decoder,
\* whatever data-type byte and index byte its chunks carry, is decoded
\* without an exception into a generic payload that lists every chunk with
\* its index, its length and its elements.
C11_FallbackTotality ==
    FallbackCall =>
        /\ ~IsRaise(last.result)
        /\ last.result.cls = "B0Response"
        /\ last.result.data.cls = "B0GenDecodedData"
        /\ Len(last.result.data.data) = Len(LastS.data)
        /\ \A k \in 1..Len(LastS.data) :
              /\ last.result.data.data[k].idx = LastS.data[k].index
              /\ last.result.data.data[k].len = LastS.data[k].length

\* fewer bytes than the header, the declared data region and the trailer
\* (0d b0 type command length ... 43 checksum 0a) take
Truncated(frame) ==
    \/ Len(frame) < 5
    \/ Len(frame) < 5 + frame[5] + 3

\* C12: a truncated frame makes the decode fail with a MalformedFrame error;
\* no structured message and no chunk is built from it.
C12_TruncatedFrameFails ==
    (IsB0Call /\ Truncated(last.data)) =>
        /\ IsRaise(last.result)
        /\ last.result.exc = "MalformedFrame"
        /\ last.message = PyNone

\* a final frame decoded from its own chunks by one of the fourteen
\* b0_{command}_data_decoder methods
SpecificCall ==
    /\ FinalCall
    /\ ~ActiveBefore
    /\ LastS.command \in SpecificDecoders

\* C13: no error of a semantic command decoder leaves decode_b0_message: a
\* final response frame of a command with a specific decoder always yields a
\* Response, whatever its payload bytes are.
C13_SemanticErrorsContained ==
    SpecificCall =>
        /\ ~IsRaise(last.result)
        /\ last.result.cls = "B0Response"

\* the key of the element at a position: its category name, Unknown-{index}
\* beyond the table
CapabilityKey(table, idx) ==
    IF HasValue(table, idx) THEN NameIn(table, idx)
    ELSE "Unknown-" \o ToString(idx)

\* the map of a sequence of two-byte elements
CapabilityMap(table, words) ==
    PyDict([k \in 1..Len(words) |->
              <<CapabilityKey(table, k - 1), FromBytesLittle(words[k])>>])

\* a final frame of command 22 with a chunk of two-byte elements
Capability22Call ==
    /\ SpecificCall
    /\ LastS.command = "22"
    /\ Len(LastS.data) > 0
    /\ LastS.data[1].data_type = 16

\* a final frame of command 35 selector 07 00 with a chunk of two-byte
\* elements
Capability35Call ==
    /\ SpecificCall
    /\ LastS.command = "35"
    /\ LastS.params = "07 00"
    /\ Len(LastS.data) > 0
    /\ LastS.data[1].data_type = 16

\* C14: the capability maps of command 22 and of command 35 selector 07 00
\* hold every two-byte element as a little-endian integer under its category
\* name, and under Unknown-{index} at a position beyond the table of names;
\* the decode does not fail.
C14_UnknownCapabilityKeyed ==
    /\ Capability22Call =>
          /\ ~IsRaise(last.result)
          /\ last.result.data.data
                = CapabilityMap(IndexNames, Iter(LastS.data[1].data))
    /\ Capability35Call =>
          /\ ~IsRaise(last.result)
          /\ last.result.data.data
                = CapabilityMap(B03507IndexName, Iter(LastS.data[1].data))

\* a final frame of command 35 or 42 with a chunk, whose sub-parameter has
\* no m35_ / m42_ decoder
GenericSettingsCall ==
    /\ SpecificCall
    /\ LastS.command \in {"35", "42"}
    /\ Len(LastS.data) > 0
    /\ LastS.command = "35" => slugify(LastS.params) \notin M35Decoders
    /\ LastS.command = "42" => slugify(LastS.params) \notin M42Decoders

\* C15: a 35 or 42 response whose sub-parameter has no specific decoder is
\* decoded without an error, for every data type and payload, into a
\* settings payload that names the data type of the chunk.
C15_GenericSettingsTotal ==
    GenericSettingsCall =>
        /\ ~IsRaise(last.result)
        /\ last.result.cls = "B0Response"
        /\ last.result.data.cls
              = (IF LastS.command = "35" THEN "B0Cmd35DecodedData"
                 ELSE "B0Cmd42DecodedData")
        /\ last.result.data.data_type = get_data_type(LastS.data[1].data_type)

\* the checksum of last.data has been computed
ChecksumDone == calls = 1

\* the rule with the sum reduced mod 256 first
Mod256Rule(bs) ==
    LET c == 255 - ((SumSeq(bs) % 256) % 255)
    IN  IF c = 255 THEN 0 ELSE c

\* C16 as stated: the checksum is 0xFF - (s mod 0xFF) for s = the sum of the
\* bytes mod 256, with 0xFF replaced by 0x00.
C16_SumMod256 ==
    ChecksumDone => last.result = <<Mod256Rule(last.data)>>

\* C16: the checksum is 0xFF - (sum mod 0xFF) for the whole sum of the bytes
\* (not reduced mod 256), with 0xFF replaced by 0x00; it is the one value in
\* 0..0xFE that makes sum + checksum a multiple of 0xFF.
C16_ChecksumRule ==
    ChecksumDone =>
        /\ Len(last.result) = 1
        /\ last.result[1] \in 0..254
        /\ (SumSeq(last.data) + last.result[1]) % 255 = 0
        /\ last.result[1] = (IF SumSeq(last.data) % 255 = 0 THEN 0
                             ELSE 255 - (SumSeq(last.data) % 255))

\* a sum above 0xFF for which the two rules differ
C16_Witness ==
    /\ ChecksumDone
    /\ SumSeq(last.data) >= 256
    /\ last.result # <<Mod256Rule(last.data)>>

\* the value in 0..0xFE that makes the sum of the bytes and the value a
\* multiple of 0xFF
CheckByte(bs) == CHOOSE c \in 0..254 : (SumSeq(bs) + c) % 255 = 0

\* the markers are in place and the embedded byte is the checksum of the
\* bytes from position first up to and including the end-of-data marker
MarkedAndSummed(frame, first) ==
    /\ Len(frame) >= 3
    /\ frame[1] = 13
    /\ frame[Len(frame) - 2] = 67
    /\ frame[Len(frame)] = 10
    /\ frame[Len(frame) - 1] = CheckByte(SubSeq(frame, first, Len(frame) - 2))

\* the frame has a structured message and validate_b0_message is true of it
Validated == IsB0Call /\ LastS # PyNone /\ validate_b0_message(LastS)

\* C17 as stated: validate_b0_message(frame) is true iff the three markers
\* are in place and the embedded byte is the checksum of every byte from the
\* start marker up to and including the end-of-data marker.
C17_SumFromStartMarker ==
    IsB0Call => (Validated <=> MarkedAndSummed(last.data, 1))

\* C17: for a frame with a type byte of 0..5, validate_b0_message is true iff
\* the three markers are in place and the embedded byte is the checksum of
\* the bytes after the start marker up to and including the end-of-data
\* marker, and a returned result carries that value as verified; for any
\* other type byte there is no structured message and the decode raises
\* AttributeError.
C17_ValidateRule ==
    IsB0Call =>
        /\ LastS # PyNone =>
              /\ validate_b0_message(LastS) <=> MarkedAndSummed(last.data, 2)
              /\ ~IsRaise(last.result) =>
                    (last.result.verified <=> MarkedAndSummed(last.data, 2))
        /\ LastS = PyNone =>
              /\ IsRaise(last.result)
              /\ last.result.exc = "AttributeError"

\* a frame is validated whose embedded byte is not the checksum taken from
\* the start marker on
C17_Witness ==
    /\ Validated
    /\ ~IsRaise(last.result)
    /\ last.result.verified
    /\ ~MarkedAndSummed(last.data, 1)

\* the result of the call carries verified = true
Accepted == ~IsRaise(last.result) /\ last.result.verified

\* C18 as stated: a frame made of a body b (from the 0x0D start marker to the
\* 0x43 end-of-data marker), the checksum of b and the 0x0A end marker is
\* accepted by verification.
C18_SealedFromStartMarker ==
    (calls > 0 /\ MarkedAndSummed(last.data, 1)) => Accepted

\* C18: a frame made of a body b (from the 0x0D start marker to the 0x43
\* end-of-data marker), the checksum of b without its first byte and the 0x0A
\* end marker is accepted: a standard message is verified, a B0 frame with a
\* type byte of 0..5 is validated and a returned result is verified; a B0
\* frame with any other type byte raises AttributeError.
C18_RoundTrip ==
    (calls > 0 /\ MarkedAndSummed(last.data, 2)) =>
        /\ ~IsB0Call => Accepted
        /\ (IsB0Call /\ LastS # PyNone) =>
              /\ validate_b0_message(LastS)
              /\ ~IsRaise(last.result) => last.result.verified
        /\ (IsB0Call /\ LastS = PyNone) =>
              /\ IsRaise(last.result)
              /\ last.result.exc = "AttributeError"

\* a standard frame sealed that way has been accepted
C18_Witness ==
    /\ calls > 0
    /\ ~IsB0Call
    /\ MarkedAndSummed(last.data, 2)
    /\ Accepted

\* the same frame with the checksum byte the validation expects
WithChecksum(frame) ==
    [frame EXCEPT ![Len(frame) - 1] =
                     CheckByte(SubSeq(frame, 2, Len(frame) - 2))]

\* a result without its verified flag and its checksum field
Unverified(result) ==
    IF IsRaise(result) THEN result
    ELSE [result EXCEPT !.verified = FALSE, !.checksum = ""]

\* the stored pages without the checksum byte of their frames
PagesUnverified(pgs) ==
    [i \in 1..Len(pgs) |->
        [page_id |-> pgs[i].page_id,
         message |-> [pgs[i].message EXCEPT !.checksum = "",
                                            !.message = <<>>]]]

\* the call and the decode of the other frame, from the same stored pages,
\* end alike
SameOutcome(other) ==
    /\ Unverified(last.result) = Unverified(other.result)
    /\ PagesUnverified(pages) = PagesUnverified(other.pages)

\* C19: a checksum or marker mismatch never aborts decoding: the decode of a
\* frame returns the result and leaves the stored pages as the decode of the
\* same frame with a correct checksum byte does, but for the verified flag,
\* which is false on a mismatch, and the checksum field, which shows the
\* embedded byte.
C19_MismatchNeverAborts ==
    (IsB0Call /\ Len(last.data) >= 3) =>
        /\ SameOutcome(decode_b0_message(last.before, WithChecksum(last.data)))
        /\ (~IsRaise(last.result) /\ ~MarkedAndSummed(last.data, 2)) =>
              ~last.result.verified
        /\ ~IsRaise(last.result) =>
              last.result.checksum
                 = HexByte(last.data[Len(last.data) - 1])

\* the standard decoder has decoded the frame 0d 02 02 02 43 f9 0a
AckShapedCall == calls > 0 /\ last.data = <<13, 2, 2, 2, 67, 249, 10>>

\* C20 as stated: the standard decoder decodes 0d 02 02 02 43 f9 0a to
\* command 02, command name ACK and verified = true.
C20_AckVerified ==
    AckShapedCall =>
        /\ last.result.command = "02"
        /\ last.result.command_str = "ACK"
        /\ last.result.verified = TRUE

\* C20: the standard decoder decodes 0d 02 02 02 43 f9 0a to command 02,
\* command name ACK, data 02 02 43 and verified = false: f9 is not the
\* checksum of the bytes 02 02 02 43 between the start marker and the
\* checksum byte, which is b6.
C20_AckNotVerified ==
    AckShapedCall =>
        /\ last.result.cls = "STDMessage"
        /\ last.result.command = "02"
        /\ last.result.command_str = "ACK"
        /\ last.result.data = "02 02 43"
        /\ last.result.checksum = "f9"
        /\ last.result.verified = FALSE
        /\ CheckByte(<<2, 2, 2, 67>>) = 182

C20_Witness ==
    /\ AckShapedCall
    /\ last.result.cls = "STDMessage"
    /\ pages = <<>>

(***************************************************************************)
(* Properties of the structural decoder                                    *)
(***************************************************************************)
\* an ADD, REMOVE or REQUEST frame has been decoded
RequestCall ==
    /\ IsB0Call
    /\ LastS # PyNone
    /\ LastS.message_type \in
          {MessageType_ADD, MessageType_REMOVE, MessageType_REQUEST}

\* ... a REQUEST with a declared length above 1
ParamRequestCall ==
    /\ RequestCall
    /\ LastS.message_type = MessageType_REQUEST
    /\ LastS.length_all_data > 1

\* " ".join(strs)
RECURSIVE JoinSp(_)
JoinSp(strs) ==
    IF strs = <<>> THEN ""
    ELSE IF Len(strs) = 1 THEN strs[1]
    ELSE strs[1] \o " " \o JoinSp(Tail(strs))

\* C21: every ADD, REMOVE or REQUEST frame yields a Request; for a REQUEST
\* with parameters the payload is a list of hex groups of param_size bytes
\* each (param_size is byte 5 of the frame, any value, 0 included) whose
\* concatenation is the payload.
C21_RequestRendered ==
    /\ RequestCall =>
          /\ ~IsRaise(last.result)
          /\ last.result.cls = "B0Request"
    /\ ParamRequestCall =>
          /\ ~IsRaise(last.result)
          /\ JoinSp(last.result.data) = HexSp(LastS.data.v)
          /\ \A k \in 1..Len(last.result.data) :
                Len(last.result.data[k]) = 3 * LastS.param_size - 1

\* the sub-chunks <first byte> <data type> <index> <length> <payload> that a
\* data region holds one after the other
RECURSIVE SubChunks(_)
SubChunks(region) ==
    IF Len(region) < 4 \/ Len(region) < 4 + region[4] THEN <<>>
    ELSE <<[data_type |-> region[2], index |-> region[3],
            length |-> region[4],
            payload |-> SubSeq(region, 5, 4 + region[4])]>>
         \o SubChunks(SubSeq(region, 5 + region[4], Len(region)))

\* the bytes of the data region before the message counter
RegionOf(frame) == SubSeq(frame, 6, 4 + frame[5])

\* the frame is a response in the default layout (byte 6 is not zero, the
\* command is none of 0f, 35, 42) whose declared length is that of its data
\* region and whose sub-chunks fill the region
WellFormedDefault(frame) ==
    /\ Len(frame) >= 9
    /\ frame[2] = 176
    /\ frame[3] \in {MessageType_PAGED_RESPONSE, MessageType_RESPONSE,
                     MessageType_UNKNOWN}
    /\ frame[4] \notin {15, 53, 66}
    /\ Len(frame) = 5 + frame[5] + 3
    /\ frame[5] >= 1
    /\ frame[5] > 1 => frame[7] # 0
    /\ SumSeq([k \in 1..Len(SubChunks(RegionOf(frame))) |->
                 4 + SubChunks(RegionOf(frame))[k].length]) = frame[5] - 1

DefaultCall == IsB0Call /\ WellFormedDefault(last.data)

\* C22: structural decode of a well-formed default-layout response frame
\* whose data region holds n sub-chunks emits n chunks in frame order, each
\* with the data type, index, declared length and payload of its sub-chunk,
\* a zero-length sub-chunk in last position included.
C22_ChunkPerSubChunk ==
    DefaultCall =>
        /\ LastS # PyNone
        /\ Len(LastS.data) = Len(SubChunks(RegionOf(last.data)))
        /\ \A k \in 1..Len(LastS.data) :
              /\ LastS.data[k].data_type
                    = SubChunks(RegionOf(last.data))[k].data_type
              /\ LastS.data[k].index = SubChunks(RegionOf(last.data))[k].index
              /\ LastS.data[k].length
                    = SubChunks(RegionOf(last.data))[k].length
              /\ Flatten(LastS.data[k].data.v)
                    = SubChunks(RegionOf(last.data))[k].payload

\* the element width of a data type
ElementSize(data_type) == Max(1, data_type \div 8)

ByteAt(frame, offset) == IF offset < Len(frame) THEN frame[offset + 1] ELSE 0

\* a response frame decoded in the 0f, the 35 or the default layout
RechunkedCall ==
    /\ IsB0Call
    /\ LastS # PyNone
    /\ LastS.shape = "response"
    /\ ByteAt(last.data, 6) # 0
    /\ LastS.command # "42"

\* the layout says where the payload of chunk k lies in the frame: for 0f
\* and 35 for every frame, for the default layout when the sub-chunks fill
\* the region
PayloadKnown(frame) == frame[4] \in {15, 53} \/ WellFormedDefault(frame)

RawPayload(frame, k) ==
    IF frame[4] = 15 THEN PySlice(frame, 8, 8 + ByteAt(frame, 4) - 4)
    ELSE IF frame[4] = 53 THEN PySlice(frame, 12, 12 + ByteAt(frame, 8) - 3)
    ELSE SubChunks(RegionOf(frame))[k].payload

ConcatenationIsPayload ==
    PayloadKnown(last.data) =>
        \A k \in 1..Len(LastS.data) :
            Flatten(LastS.data[k].data.v) = RawPayload(last.data, k)

\* C23 as stated: every slice of every chunk of the 0f, 35 and default
\* layouts has exactly max(1, floor(data_type / 8)) bytes, and the slices
\* concatenate to the raw payload.
C23_EqualSlices ==
    RechunkedCall =>
        /\ \A k \in 1..Len(LastS.data) :
              \A j \in 1..Len(LastS.data[k].data.v) :
                 Len(LastS.data[k].data.v[j])
                    = ElementSize(LastS.data[k].data_type)
        /\ ConcatenationIsPayload

\* C23: every slice but the last of every chunk of the 0f, 35 and default
\* layouts has exactly max(1, floor(data_type / 8)) bytes, the last slice has
\* between 1 byte and that size (it is shorter when the payload length is not
\* a multiple of the size), and the slices concatenate in order to the raw
\* payload.
C23_SlicesButLast ==
    RechunkedCall =>
        /\ \A k \in 1..Len(LastS.data) :
              \A j \in 1..Len(LastS.data[k].data.v) :
                 /\ Len(LastS.data[k].data.v[j]) >= 1
                 /\ Len(LastS.data[k].data.v[j])
                       <= ElementSize(LastS.data[k].data_type)
                 /\ j < Len(LastS.data[k].data.v)
                       => Len(LastS.data[k].data.v[j])
                             = ElementSize(LastS.data[k].data_type)
        /\ ConcatenationIsPayload

\* a chunk of several slices whose payload is not a multiple of the size
C23_Witness ==
    /\ RechunkedCall
    /\ PayloadKnown(last.data)
    /\ \E k \in 1..Len(LastS.data) :
          /\ Len(LastS.data[k].data.v) >= 2
          /\ Len(LastS.data[k].data.v[Len(LastS.data[k].data.v)])
                < ElementSize(LastS.data[k].data_type)

ResponseCall == IsB0Call /\ LastS # PyNone /\ LastS.shape = "response"

\* C24: every chunk that structural decode builds has a length field that is
\* an unsigned 16-bit value, in every layout, those that subtract from a
\* declared length byte (0f, 35, 42) included.
C24_LengthUnsigned16 ==
    ResponseCall =>
        \A k \in 1..Len(LastS.data) : LastS.data[k].length \in 0..65535

\* a final frame of command 35 that carries the assigned zone types or the
\* assigned zone names
ZoneListCall ==
    /\ SpecificCall
    /\ LastS.command = "35"
    /\ LastS.params \in {"31 00", "32 00"}
    /\ Len(LastS.data) > 0

ZoneTypeOf(byte) ==
    IF byte < Len(ZONE_TYPES) THEN ZONE_TYPES[byte + 1] ELSE "UNKNOWN"

\* C25: the decoders of the assigned zone types (31 00) and of the assigned
\* zone names (32 00) of command 35 return one entry per payload byte: n
\* entries for a payload of n bytes, entry z derived from byte z.
C25_EntryPerByte ==
    ZoneListCall =>
        /\ ~IsRaise(last.result)
        /\ Len(last.result.data.data) = Len(RawPayload(last.data, 1))
        /\ \A z \in 1..Len(RawPayload(last.data, 1)) :
              IF LastS.params = "31 00"
              THEN last.result.data.data[z]
                      = ZoneTypeOf(RawPayload(last.data, 1)[z])
              ELSE last.result.data.data[z] = RawPayload(last.data, 1)[z]

(***************************************************************************)
(* Properties of the reassembly and of the accumulator                     *)
(***************************************************************************)
\* C26: reassembly merges chunks only when they have the same data type and
\* the same index: chunks that share an index and differ in data type stay
\* separate, so every (data type, index) pair of the frames of the sequence
\* is the pair of a chunk of the reassembled message.
C26_MergeSameTypeAndIndex ==
    Reassembled =>
        \A c \in 1..Len(ChunksOf(ArrivedMsgs)) :
            \E k \in 1..Len(last.message.data) :
                /\ last.message.data[k].index = ChunksOf(ArrivedMsgs)[c].index
                /\ last.message.data[k].data_type
                      = ChunksOf(ArrivedMsgs)[c].data_type

\* C27: the Response returned for a PAGED_RESPONSE frame is not changed by a
\* later call: the chunk list it refers to, that of the stored page, still
\* has the payloads, hex lists and lengths of the page's own frame after
\* every later call, the reassembling one included.
C27_ReturnedPageUnchanged ==
    calls > 0 =>
        \A i \in 1..Len(last.before) :
            last.held[i].message.data
               = AsReceived(last.before[i].message).data

\* C28: in every reachable state the pages held by the accumulator belong
\* to a single command: only one multi-page sequence is held at a time.
C28_SingleCommandHeld ==
    \A i, j \in 1..Len(pages) :
        pages[i].page_id.command = pages[j].page_id.command

\* C29: for every value of the message-type byte structural decode returns a
\* structured message, of the request shape for ADD, REMOVE and REQUEST and
\* of the response shape for every other value: decode_b0_message never has
\* an absent structure to validate.
C29_StructureForEveryType ==
    IsB0Call =>
        /\ LastS # PyNone
        /\ LastS.shape
              = (IF ByteAt(last.data, 2) \in {MessageType_ADD, MessageType_REMOVE,
                                              MessageType_REQUEST}
                 THEN "request" ELSE "response")

\* a response frame decoded in the default layout
DefaultLayoutCall ==
    /\ ResponseCall
    /\ ByteAt(last.data, 6) # 0
    /\ LastS.command \notin {"0f", "35", "42"}

\* the offset the loop read chunk k at: 5 for the first, then 4 and the
\* length byte further for every chunk
ChunkOffset(k) == 5 + SumSeq([j \in 1..(k - 1) |-> 4 + LastS.data[j].length])

\* offsets 5, 9, ... up to the declared length - 1 of at most 254
MaxChunks == 63

\* C30: the sub-chunk loop of the default layout ends for every frame and
\* every declared length: every chunk was read at an offset of at most the
\* declared length - 1, that starts at 5 and grows by 4 plus the length byte
\* at offset + 3 (0 past the end of the frame); the loop stops at the first
\* offset beyond, and at most 63 chunks are emitted.
C30_SubChunkLoopBounded ==
    DefaultLayoutCall =>
        /\ Len(LastS.data) <= MaxChunks
        /\ \A k \in 1..Len(LastS.data) :
              /\ ChunkOffset(k) <= LastS.length_all_data - 1
              /\ LastS.data[k].length = ByteAt(last.data, ChunkOffset(k) + 3)
        /\ ChunkOffset(Len(LastS.data) + 1) > LastS.length_all_data - 1

\* 63 chunks are emitted, with length bytes read past the end of the frame
C30_Witness ==
    /\ DefaultLayoutCall
    /\ Len(LastS.data) = MaxChunks
    /\ \E k \in 1..Len(LastS.data) : ChunkOffset(k) + 3 >= Len(last.data)

=============================================================================
